---- MODULE Spec2Model ----
(***************************************************************************)
(* Asynchronous resource loading of mini-godot (crate mini-resource):      *)
(* resource headers and their state machine, the future contract of        *)
(* UntypedResource, the loader registry and the ResourceManager with the   *)
(* load jobs it runs on the task pool.                                     *)
(***************************************************************************)
EXTENDS Integers, Sequences, FiniteSets, TLC

VARIABLES
    headers,             \* every Arc<Mutex<ResourceHeader>> allocated so far, by index
    built_in_resources,  \* ResourceManagerState::built_in_resources: path -> header index
    loaders,             \* ResourceLoaders::loaders, in registration order
    metas,               \* ResourceMetas::metas: data type uuid -> meta
    jobs,                \* the load_internal futures: spawned on the task pool or awaited inline
    woken,               \* number of Waker::wake calls received by each waker
    lastOp,              \* the operation that produced the current state, with what it returned
    committed,           \* history: the header was created terminal, or a commit replaced its state
    calls,               \* the calls in progress on each caller thread and load job, with the locks held
    pool                 \* mini_task::TaskPool: its tasks, its workers, its result channel

vars == <<headers, built_in_resources, loaders, metas, jobs, woken, lastOp, committed, calls, pool>>

(* The lock holders and the task pool, left alone by the steps below that     *)
(* are taken as one atomic step of the manager.                               *)
aux == <<calls, pool>>

-----------------------------------------------------------------------------
(* Bounds of the model *)

MaxHeaders == 1
MaxLoaders == 1
NumWakers == 2

(* The manager is followed over one more request than the handle API *)
MaxLoads == MaxHeaders + 1

(* The loader registry alone is followed over one more registration *)
MaxRegistrations == MaxLoaders + 1

Wakers == 1..NumWakers

-----------------------------------------------------------------------------
(* Paths.  A ResourcePath is a source, a path and a label; the path is kept   *)
(* split in stem and extension (std::path::Path::extension).  An extension is *)
(* a sequence of characters.                                                  *)

NoExt == [some |-> FALSE, s |-> <<>>]
SomeExt(s) == [some |-> TRUE, s |-> s]

DefaultSource == "Default"

MkPath(source, stem, ext) == [source |-> source, stem |-> stem, ext |-> ext]

NoPath == MkPath("", "", NoExt)

Paths ==
    { MkPath(DefaultSource, "a", SomeExt(<<"P", "n", "G">>)),
      MkPath(DefaultSource, "b", NoExt),
      MkPath(DefaultSource, "c", SomeExt(<<"x", "y">>)),
      MkPath("remote", "a", SomeExt(<<"p", "n", "g">>)) }

(* The key of the pre-populated entry of the built-in table, when there is one *)
BuiltInPath == MkPath(DefaultSource, "a", SomeExt(<<"P", "n", "G">>))

(* char::to_lowercase on the letters used by the model *)
ToLower(c) ==
    CASE c = "P" -> "p"
      [] c = "N" -> "n"
      [] c = "G" -> "g"
      [] c = "X" -> "x"
      [] c = "Y" -> "y"
      [] OTHER -> c

(* A comparison that tells the cases apart *)
cmp_strings_case_sensitive(a, b) == a = b

(* mini_core::utils::cmp_strings_case_insensitive *)
cmp_strings_case_insensitive(a, b) ==
    IF Len(a) # Len(b)
    THEN FALSE
    ELSE \A i \in 1..Len(a) : ToLower(a[i]) = ToLower(b[i])

-----------------------------------------------------------------------------
(* Type uuids, payloads, errors *)

NilUuid == "Nil"
Uuids == {"T1", "T2"}

(* A payload: its concrete type (by uuid) and what produced it *)
MkData(type, by) == [type |-> type, by |-> by]
NoData == MkData(NilUuid, "")
UserData == { MkData("T2", "user") }

NoError == ""
UserErrors == {"UserError"}

(* ErasedResourceData::type_uuid *)
DataTypeUuid(data) == data.type

-----------------------------------------------------------------------------
(* Loaders.  A loader type: its concrete type, declared extensions, the uuid *)
(* of its ResourceData and its Settings type.                                *)

MkLoader(id, exts, data, settings) ==
    [id |-> id, exts |-> exts, data |-> data, settings |-> settings]

LoaderTypes ==
    { MkLoader("ImageLoader", << <<"p", "n", "g">> >>, "T1", "S1"),
      MkLoader("PngLoader", << <<"P", "N", "G">>, <<"x">> >>, "T1", "S2") }

NoLoader == MkLoader("", <<>>, NilUuid, "")

(* ResourceMeta<R>::new: the loader's default settings *)
MkMeta(settings) == [settings |-> settings]

(* push that replaces the registered loader of the same concrete type *)
push_replace(ls, loader) ==
    IF \E i \in 1..Len(ls) : ls[i].id = loader.id
    THEN [i \in 1..Len(ls) |-> IF ls[i].id = loader.id THEN loader ELSE ls[i]]
    ELSE Append(ls, loader)

(* ResourceLoaders::push *)
push(ls, loader) == Append(ls, loader)

(* ErasedResourceLoader::supports_extension *)
supports_extension(loader, ext) ==
    \E i \in 1..Len(loader.exts) : cmp_strings_case_insensitive(loader.exts[i], ext)

(* ResourceLoaders::find: the first loader, in registration order, that supports ext *)
find(ls, ext) ==
    LET hits == { i \in 1..Len(ls) : supports_extension(ls[i], ext) }
    IN  IF hits = {}
        THEN NoLoader
        ELSE ls[CHOOSE i \in hits : \A k \in hits : i <= k]

(* ResourceLoaders::find_loader *)
find_loader(ls, path) ==
    IF path.ext.some THEN find(ls, path.ext.s) ELSE NoLoader

(* ResourceLoader::data_type_uuid *)
data_type_uuid(loader) == loader.data

-----------------------------------------------------------------------------
(* Resource headers *)

Embedded == <<"Embedded">>
External(path) == <<"External", path>>

(* ResourceKind::is_external *)
is_external(kind) == kind # Embedded

MkHeader(state, data, error, wakers, type_uuid, kind) ==
    [state |-> state, data |-> data, error |-> error, wakers |-> wakers,
     type_uuid |-> type_uuid, kind |-> kind]

(* new_ok that leaves the default uuid in the header *)
new_ok_unstamped(kind, data) == MkHeader("Ok", data, NoError, <<>>, NilUuid, kind)

(* UntypedResource::new_ok *)
new_ok(kind, data) == MkHeader("Ok", data, NoError, <<>>, DataTypeUuid(data), kind)

(* UntypedResource::new_load_error *)
new_load_error(kind, error, type_uuid) ==
    MkHeader("LoadError", NoData, error, <<>>, type_uuid, kind)

(* new_pending that stamps the default uuid, as new_load_error is given *)
new_pending_nil(kind, type_uuid) ==
    MkHeader("Pending", NoData, NoError, <<>>, NilUuid, kind)

(* UntypedResource::new_pending *)
new_pending(kind, type_uuid) ==
    MkHeader("Pending", NoData, NoError, <<>>, type_uuid, kind)

Handles == 1..Len(headers)

-----------------------------------------------------------------------------
(* Operation records *)

(* What an operation did: its name, the header it acted on (0: none), the    *)
(* path it was given, its outcome, and the error and the handle it returned; *)
(* then the waker (0: none) and the type parameter T it was called with, and *)
(* the payload or the loader it returned.                                    *)
MkOp(op, h, p, out, err, ret) ==
    [op |-> op, h |-> h, p |-> p, out |-> out, err |-> err, ret |-> ret,
     w |-> 0, t |-> NilUuid, val |-> NoData, loader |-> NoLoader]

-----------------------------------------------------------------------------
(* mini_task::TaskPool and the caller threads *)

(* Bounds: the worker threads of the pool, the tasks spawned with a result,   *)
(* the caller threads using the manager at once.                              *)
NumWorkers == 1
MaxTasks == 2
NumThreads == 2

Workers == 1..NumWorkers
Threads == 1..NumThreads

(* What the futures passed to spawn_with_result return *)
TaskValues == {"x", "y"}

(* TaskResult { id, payload } *)
MkTaskResult(id, payload) == [id |-> id, payload |-> payload]

(* A worker runs no task (futures::executor::ThreadPool) *)
Free == 0

(* TaskPool::new: no task, all workers free, an empty channel.  `received` is *)
(* the history of what next_task_result returned, `parent` the load job that  *)
(* awaits a load job inline.                                                  *)
new_task_pool ==
    [tasks |-> <<>>,
     results |-> <<>>,
     received |-> <<>>,
     workers |-> [w \in Workers |-> Free],
     parent |-> [j \in {} |-> 0]]

(* No call in progress: no thread is inside the manager, no job holds a lock. *)
(* `arg` holds the loader or the path the call was made with, `h` the handle.  *)
Idle == [op |-> "", pc |-> "", held |-> {}, arg |-> <<>>, h |-> 0]

NoCalls == [threads |-> [t \in Threads |-> Idle], jobs |-> <<>>]

-----------------------------------------------------------------------------
(* Initial state: no loader registered, no load requested.  The built-in     *)
(* table is either empty or holds one pre-populated resource.                *)

Init ==
    /\ \E withBuiltIn \in BOOLEAN :
         IF withBuiltIn
         THEN /\ headers = << new_ok(Embedded, MkData("T1", "builtin")) >>
              /\ built_in_resources = [p \in {BuiltInPath} |-> 1]
              /\ committed = <<TRUE>>
         ELSE /\ headers = <<>>
              /\ built_in_resources = [p \in {} |-> 1]
              /\ committed = <<>>
    /\ loaders = <<>>
    /\ metas = [u \in {} |-> MkMeta("")]
    /\ jobs = <<>>
    /\ woken = [w \in Wakers |-> 0]
    /\ lastOp = MkOp("init", 0, NoPath, "", NoError, 0)
    /\ calls = NoCalls
    /\ pool = new_task_pool

-----------------------------------------------------------------------------
(* ResourceState: the three variants, and commit *)

StOk(data) == [state |-> "Ok", data |-> data, error |-> NoError, wakers |-> <<>>]
StLoadError(error) == [state |-> "LoadError", data |-> NoData, error |-> error, wakers |-> <<>>]
StPending == [state |-> "Pending", data |-> NoData, error |-> NoError, wakers |-> <<>>]

(* commit without its assertion *)
commit_assert_missing(hd, new) == TRUE

(* The assertion of ResourceState::commit *)
commit_assert(hd, new) == new.state # "Pending"

(* ResourceState::commit past its assertion: *self = state *)
commit(hd, new) ==
    [hd EXCEPT !.state = new.state, !.data = new.data,
               !.error = new.error, !.wakers = new.wakers]

(* ResourceState::commit_ok *)
state_commit_ok(hd, data) == commit(hd, StOk(data))

(* ResourceState::commit_error *)
state_commit_error(hd, error) == commit(hd, StLoadError(error))

(* UntypedResource::commit_ok: records the payload's type uuid, then commits *)
commit_ok(hd, data) ==
    state_commit_ok([hd EXCEPT !.type_uuid = DataTypeUuid(data)], data)

(* UntypedResource::commit_error *)
commit_error(hd, error) == state_commit_error(hd, error)

(* The wakers a commit wakes: the code replaces the state and calls no Waker::wake *)
WakeOnCommit(hd) == {}

Range(seq) == { seq[i] : i \in 1..Len(seq) }

(* The header h becomes newHeader by a commit *)
Replace(h, newHeader) ==
    /\ headers' = [headers EXCEPT ![h] = newHeader]
    /\ woken' = [w \in Wakers |-> IF w \in WakeOnCommit(headers[h]) THEN woken[w] + 1 ELSE woken[w]]
    /\ committed' = [committed EXCEPT ![h] = TRUE]

(* A caller commits Ok through a handle: UntypedResource::commit_ok *)
CommitOk(h, data) ==
    /\ Replace(h, commit_ok(headers[h], data))
    /\ lastOp' = MkOp("commit_ok", h, NoPath, "ok", NoError, 0)
    /\ UNCHANGED <<built_in_resources, loaders, metas, jobs>>

(* A caller commits an error through a handle: UntypedResource::commit_error *)
CommitError(h, error) ==
    /\ Replace(h, commit_error(headers[h], error))
    /\ lastOp' = MkOp("commit_error", h, NoPath, "ok", NoError, 0)
    /\ UNCHANGED <<built_in_resources, loaders, metas, jobs>>

(* A caller passes a Pending state to ResourceState::commit: the assertion panics *)
CommitPending(h) ==
    /\ IF commit_assert(headers[h], StPending)
       THEN Replace(h, commit(headers[h], StPending))
       ELSE UNCHANGED <<headers, woken, committed>>
    /\ lastOp' = MkOp("commit", h, NoPath,
                      IF commit_assert(headers[h], StPending) THEN "ok" ELSE "panic",
                      NoError, 0)
    /\ UNCHANGED <<built_in_resources, loaders, metas, jobs>>

-----------------------------------------------------------------------------
(* impl Future for UntypedResource *)

(* Waker::will_wake *)
will_wake(a, b) == a = b

(* The Pending arm of poll without the search: every poll pushes its waker *)
register_push(wakers, w) == Append(wakers, w)

(* The Pending arm of poll: update the equivalent waker in place, or push *)
register(wakers, w) ==
    LET hits == { i \in 1..Len(wakers) : will_wake(wakers[i], w) }
    IN  IF hits # {}
        THEN [wakers EXCEPT ![CHOOSE i \in hits : \A k \in hits : i <= k] = w]
        ELSE Append(wakers, w)

(* poll that does not handle the error: a failed resource keeps its waiter waiting *)
poll_out_err_pending(hd) ==
    CASE hd.state = "Pending" -> "Pending"
      [] hd.state = "LoadError" -> "Pending"
      [] hd.state = "Ok" -> "ReadyOk"

(* What poll returns for a header *)
poll_out(hd) ==
    CASE hd.state = "Pending" -> "Pending"
      [] hd.state = "LoadError" -> "ReadyErr"
      [] hd.state = "Ok" -> "ReadyOk"

(* poll that keeps the last waker only *)
poll_header_overwrite(hd, w) ==
    IF hd.state = "Pending" THEN [hd EXCEPT !.wakers = <<w>>] ELSE hd

(* The header after poll *)
poll_header(hd, w) ==
    IF hd.state = "Pending" THEN [hd EXCEPT !.wakers = register(hd.wakers, w)] ELSE hd

(* UntypedResource::poll through any clone of handle h, with waker w *)
Poll(h, w) ==
    /\ headers' = [headers EXCEPT ![h] = poll_header(headers[h], w)]
    /\ lastOp' = [MkOp("poll", h, NoPath, poll_out(headers[h]),
                       IF headers[h].state = "LoadError" THEN headers[h].error ELSE NoError,
                       IF headers[h].state = "Ok" THEN h ELSE 0)
                   EXCEPT !.w = w]
    /\ UNCHANGED <<built_in_resources, loaders, metas, jobs, woken, committed>>

-----------------------------------------------------------------------------
(* Resource<T>::data_ref and the accessors of the guard it returns.  T is    *)
(* given by its type uuid: Resource::new accepts any untyped handle.         *)

(* Any::downcast_ref::<T> / downcast_mut::<T> succeeds on the payload *)
downcast_is(data, t) == DataTypeUuid(data) = t

(* as_loaded_ref without the downcast: any Ok payload is handed out as a T *)
as_loaded_unchecked(hd, t) == IF hd.state = "Ok" THEN "Some" ELSE "None"

(* ResourceDataRef::as_loaded_ref / as_loaded_mut *)
as_loaded(hd, t) ==
    IF hd.state = "Ok"
    THEN IF downcast_is(hd.data, t) THEN "Some" ELSE "None"
    ELSE "None"

PanicNotLoaded == "Attempt to get reference to resource data while it is not loaded!"
PanicFailed == "Attempt to get reference to resource data which failed to load!"
PanicMismatch == "Type mismatch!"

(* deref that treats a failed resource as a loaded one *)
deref_error_as_ok(hd, t) ==
    CASE hd.state = "Pending" -> PanicNotLoaded
      [] hd.state = "LoadError" -> NoError
      [] hd.state = "Ok" -> IF downcast_is(hd.data, t) THEN NoError ELSE PanicMismatch

(* Deref::deref / DerefMut::deref_mut of ResourceDataRef: the panic message, *)
(* or NoError when the payload is handed out                                 *)
deref(hd, t) ==
    CASE hd.state = "Pending" -> PanicNotLoaded
      [] hd.state = "LoadError" -> PanicFailed
      [] hd.state = "Ok" -> IF downcast_is(hd.data, t) THEN NoError ELSE PanicMismatch

(* An accessor takes the header lock, reads the state and releases the lock: *)
(* nothing changes, whether it returns or unwinds                            *)
Access(op, h, t, out, err) ==
    /\ lastOp' = [MkOp(op, h, NoPath, out, err, 0)
                   EXCEPT !.t = t,
                          !.val = IF out = "Some" THEN headers[h].data ELSE NoData]
    /\ UNCHANGED <<headers, built_in_resources, loaders, metas, jobs, woken, committed>>

(* Resource<T>::data_ref().as_loaded_ref() through handle h *)
AsLoadedRef(h, t) == Access("as_loaded_ref", h, t, as_loaded(headers[h], t), NoError)

(* Resource<T>::data_ref().as_loaded_mut() through handle h *)
AsLoadedMut(h, t) == Access("as_loaded_mut", h, t, as_loaded(headers[h], t), NoError)

(* *Resource<T>::data_ref() through handle h *)
Deref(h, t) ==
    Access("deref", h, t,
           IF deref(headers[h], t) = NoError THEN "Some" ELSE "panic", deref(headers[h], t))

(* Mutable dereference of Resource<T>::data_ref() through handle h *)
DerefMut(h, t) ==
    Access("deref_mut", h, t,
           IF deref(headers[h], t) = NoError THEN "Some" ELSE "panic", deref(headers[h], t))

-----------------------------------------------------------------------------
(* ResourceManager *)

(* ResourceMetas::insert::<L>: keyed by the loader's data type uuid *)
metas_insert(ms, loader) ==
    [u \in DOMAIN ms \cup {data_type_uuid(loader)} |->
        IF u = data_type_uuid(loader) THEN MkMeta(loader.settings) ELSE ms[u]]

(* ErasedResourceLoader::default_meta_from_dyn succeeds: ResourceMeta::new_settings *)
settings_is(meta, loader) == meta.settings = loader.settings

(* get_meta_and_reader that hands out the registered meta as it is *)
get_meta_unchecked(ms, loader) ==
    IF data_type_uuid(loader) \in DOMAIN ms
    THEN MkMeta(ms[data_type_uuid(loader)].settings)
    ELSE MkMeta(loader.settings)

(* get_meta_and_reader without the fallback to the loader's default meta *)
get_meta_registered(ms, loader) ==
    IF data_type_uuid(loader) \in DOMAIN ms /\ settings_is(ms[data_type_uuid(loader)], loader)
    THEN MkMeta(ms[data_type_uuid(loader)].settings)
    ELSE MkMeta("")

(* The meta get_meta_and_reader resolves for a loader *)
get_meta(ms, loader) ==
    IF data_type_uuid(loader) \in DOMAIN ms /\ settings_is(ms[data_type_uuid(loader)], loader)
    THEN MkMeta(ms[data_type_uuid(loader)].settings)
    ELSE MkMeta(loader.settings)

(* ResourceSources::get that falls back to the default source for any name *)
source_exists_any(source) == TRUE

(* ResourceSources::get: the manager builds the default source only *)
source_exists(source) == source = DefaultSource

(* ResourceManagerState::add_loader: it returns nothing *)
add_loader(loader) ==
    /\ loaders' = push(loaders, loader)
    /\ metas' = metas_insert(metas, loader)
    /\ lastOp' = MkOp("add_loader", 0, NoPath, "ok", NoError, 0)
    /\ UNCHANGED <<headers, built_in_resources, jobs, woken, committed>>

(* ResourceManager::add_loader, while the registry is within the bound *)
AddLoader(loader) ==
    /\ Len(loaders) < MaxLoaders
    /\ add_loader(loader)

(* ResourceLoaders::find_loader called on the registry of the manager *)
FindLoader(path) ==
    /\ lastOp' = [MkOp("find_loader", 0, path,
                       IF find_loader(loaders, path) = NoLoader THEN "None" ELSE "Some",
                       NoError, 0)
                   EXCEPT !.loader = find_loader(loaders, path)]
    /\ UNCHANGED <<headers, built_in_resources, loaders, metas, jobs, woken, committed>>

(* load_built_in that leaves the header of a path without loader Pending *)
load_built_in_pending(path, kind) ==
    IF path \in DOMAIN built_in_resources
    THEN [tag |-> "BuiltIn", h |-> built_in_resources[path],
          hdr |-> new_pending(kind, NilUuid), loader |-> NoLoader]
    ELSE IF find_loader(loaders, path) # NoLoader
    THEN [tag |-> "Loader", h |-> 0,
          hdr |-> new_pending(kind, data_type_uuid(find_loader(loaders, path))),
          loader |-> find_loader(loaders, path)]
    ELSE [tag |-> "NoLoader", h |-> 0,
          hdr |-> new_pending(kind, NilUuid), loader |-> NoLoader]

(* load_built_in that looks for a loader before it looks at the built-in table *)
load_built_in_loader_first(path, kind) ==
    IF find_loader(loaders, path) # NoLoader
    THEN [tag |-> "Loader", h |-> 0,
          hdr |-> new_pending(kind, data_type_uuid(find_loader(loaders, path))),
          loader |-> find_loader(loaders, path)]
    ELSE IF path \in DOMAIN built_in_resources
    THEN [tag |-> "BuiltIn", h |-> built_in_resources[path],
          hdr |-> new_pending(kind, NilUuid), loader |-> NoLoader]
    ELSE [tag |-> "NoLoader", h |-> 0,
          hdr |-> new_load_error(kind, "NoLoader", NilUuid), loader |-> NoLoader]

(* ResourceManager::load_built_in: the built-in entry, or the loader for the *)
(* path, or a new LoadError header when there is none                        *)
load_built_in(path, kind) ==
    IF path \in DOMAIN built_in_resources
    THEN [tag |-> "BuiltIn", h |-> built_in_resources[path],
          hdr |-> new_pending(kind, NilUuid), loader |-> NoLoader]
    ELSE IF find_loader(loaders, path) # NoLoader
    THEN [tag |-> "Loader", h |-> 0,
          hdr |-> new_pending(kind, data_type_uuid(find_loader(loaders, path))),
          loader |-> find_loader(loaders, path)]
    ELSE [tag |-> "NoLoader", h |-> 0,
          hdr |-> new_load_error(kind, "NoLoader", NilUuid), loader |-> NoLoader]

(* A load_internal future *)
MkJob(path, h, loader, inline) ==
    [path |-> path, h |-> h, loader |-> loader, inline |-> inline,
     pc |-> "start", meta |-> MkMeta(""), commits |-> 0, from |-> ""]

(* spawn_loading_task that joins a load of the same path still in flight *)
spawn_loading_task_shared(js, path, h, loader, inline) ==
    LET same == { j \in 1..Len(js) : js[j].path = path /\ js[j].pc # "done" }
    IN  IF same = {}
        THEN Append(js, MkJob(path, h, loader, inline))
        ELSE Append(js, MkJob(path, js[CHOOSE j \in same : TRUE].h, loader, inline))

(* The jobs after spawn_loading_task (inline = FALSE) or after load_async  *)
(* starts awaiting load_internal (inline = TRUE)                           *)
spawn_loading_task(js, path, h, loader, inline) ==
    Append(js, MkJob(path, h, loader, inline))

(* The number of headers the manager allocated: all but the built-in ones *)
Allocated == Len(headers) - Cardinality(DOMAIN built_in_resources)

(* The header allocated for a new handle *)
Allocate(hdr) ==
    /\ headers' = Append(headers, hdr)
    /\ committed' = Append(committed, hdr.state # "Pending")

(* The common part of load_untyped and load_async, up to the first await *)
Resolve(op, path, inline) ==
    LET r == load_built_in(path, External(path)) IN
    /\ IF r.tag = "BuiltIn"
       THEN /\ UNCHANGED <<headers, committed, jobs>>
            /\ lastOp' = MkOp(op, r.h, path, "returned", NoError, r.h)
       ELSE /\ Allocate(r.hdr)
            /\ jobs' = IF r.tag = "Loader"
                       THEN spawn_loading_task(jobs, path, Len(headers) + 1, r.loader, inline)
                       ELSE jobs
            /\ lastOp' = MkOp(op, Len(headers) + 1, path,
                              IF r.tag = "Loader" /\ inline THEN "awaiting" ELSE "returned",
                              NoError, Len(headers) + 1)
    /\ UNCHANGED <<built_in_resources, loaders, metas, woken>>

(* ResourceManager::load / load_untyped *)
Load(path) == Resolve("load", path, FALSE)

(* load_async that hands the load to the task pool, as load does *)
LoadAsyncSpawns(path) == Resolve("load_async", path, FALSE)

(* ResourceManager::load_async, up to its first await *)
LoadAsync(path) == Resolve("load_async", path, TRUE)

-----------------------------------------------------------------------------
(* ResourceManager::load_internal, one action per outcome of its two awaits *)

JobIds == 1..Len(jobs)

(* The job after it committed on its header, which was in state from *)
Committed(job, from) ==
    [job EXCEPT !.pc = "done", !.commits = @ + 1, !.from = from]

(* load_internal swallows the error: the header is committed Ok, without payload *)
JobCommitErrorAsOk(j, error) ==
    /\ Replace(jobs[j].h, commit(headers[jobs[j].h], StOk(NoData)))
    /\ jobs' = [jobs EXCEPT ![j] = Committed(@, headers[jobs[j].h].state)]
    /\ lastOp' = MkOp("load_internal", jobs[j].h, jobs[j].path, "commit_ok", error, 0)
    /\ UNCHANGED <<built_in_resources, loaders, metas>>

(* load_internal commits an error and starts the load again *)
JobCommitErrorRetry(j, error) ==
    /\ Replace(jobs[j].h, commit_error(headers[jobs[j].h], error))
    /\ jobs' = [jobs EXCEPT ![j] = [@ EXCEPT !.pc = "start", !.commits = @ + 1,
                                             !.from = headers[jobs[j].h].state]]
    /\ lastOp' = MkOp("load_internal", jobs[j].h, jobs[j].path, "commit_error", error, 0)
    /\ UNCHANGED <<built_in_resources, loaders, metas>>

(* load_internal commits an error and returns *)
JobCommitError(j, error) ==
    /\ Replace(jobs[j].h, commit_error(headers[jobs[j].h], error))
    /\ jobs' = [jobs EXCEPT ![j] = Committed(@, headers[jobs[j].h].state)]
    /\ lastOp' = MkOp("load_internal", jobs[j].h, jobs[j].path, "commit_error", error, 0)
    /\ UNCHANGED <<built_in_resources, loaders, metas>>

(* get_meta_and_reader fails: no asset source is registered under the path's source *)
SourceMissing(j) ==
    /\ jobs[j].pc = "start"
    /\ ~source_exists(jobs[j].path.source)
    /\ JobCommitError(j, "MissingAssetSourceError")

(* ReadFail without its return: the error is committed and the load goes on *)
ReadFailNoReturn(j) ==
    /\ jobs[j].pc = "start"
    /\ source_exists(jobs[j].path.source)
    /\ Replace(jobs[j].h, commit_error(headers[jobs[j].h], "AssetReaderError"))
    /\ jobs' = [jobs EXCEPT ![j] = [@ EXCEPT !.pc = "loading", !.commits = @ + 1,
                                             !.from = headers[jobs[j].h].state,
                                             !.meta = get_meta(metas, jobs[j].loader)]]
    /\ lastOp' = MkOp("load_internal", jobs[j].h, jobs[j].path, "commit_error",
                      "AssetReaderError", 0)
    /\ UNCHANGED <<built_in_resources, loaders, metas>>

(* get_meta_and_reader fails: the source's reader cannot read the path *)
ReadFail(j) ==
    /\ jobs[j].pc = "start"
    /\ source_exists(jobs[j].path.source)
    /\ JobCommitError(j, "AssetReaderError")

(* get_meta_and_reader succeeds: the reader is open and the meta is resolved *)
ReadOk(j) ==
    /\ jobs[j].pc = "start"
    /\ source_exists(jobs[j].path.source)
    /\ jobs' = [jobs EXCEPT ![j] = [@ EXCEPT !.pc = "loading",
                                             !.meta = get_meta(metas, jobs[j].loader)]]
    /\ lastOp' = MkOp("load_internal", jobs[j].h, jobs[j].path, "reading", NoError, 0)
    /\ UNCHANGED <<headers, built_in_resources, loaders, metas, woken, committed>>

(* A panic inside the load job: the future is dropped, nothing is committed *)
JobPanic(j) ==
    /\ jobs' = [jobs EXCEPT ![j] = [@ EXCEPT !.pc = "panicked"]]
    /\ lastOp' = MkOp("load_internal", jobs[j].h, jobs[j].path, "panic", NoError, 0)
    /\ UNCHANGED <<headers, built_in_resources, loaders, metas, woken, committed>>

(* The value a loader returns: a payload of its ResourceData type *)
loaded_value(loader) == MkData(data_type_uuid(loader), loader.id)

(* The erased load expects settings of the loader's Settings type *)
settings_match(job) == job.meta.settings = job.loader.settings

(* LoadFail that returns without committing the error *)
LoadFailNoCommit(j) ==
    /\ jobs[j].pc = "loading"
    /\ jobs' = [jobs EXCEPT ![j] = [@ EXCEPT !.pc = "done"]]
    /\ lastOp' = MkOp("load_internal", jobs[j].h, jobs[j].path, "returned", NoError, 0)
    /\ UNCHANGED <<headers, built_in_resources, loaders, metas, woken, committed>>

(* The loader's load returns Err *)
LoadFail(j) ==
    /\ jobs[j].pc = "loading"
    /\ IF settings_match(jobs[j])
       THEN JobCommitError(j, "LoaderError")
       ELSE JobPanic(j)

(* The two assertions load_internal makes before it commits Ok *)
load_asserts(hd, value) ==
    /\ hd.type_uuid = DataTypeUuid(value)
    /\ is_external(hd.kind)

(* The loader's load returns Ok *)
LoadOk(j) ==
    /\ jobs[j].pc = "loading"
    /\ IF settings_match(jobs[j])
          /\ load_asserts(headers[jobs[j].h], loaded_value(jobs[j].loader))
          /\ commit_assert(headers[jobs[j].h], StOk(loaded_value(jobs[j].loader)))
       THEN /\ Replace(jobs[j].h,
                       commit(headers[jobs[j].h], StOk(loaded_value(jobs[j].loader))))
            /\ jobs' = [jobs EXCEPT ![j] = Committed(@, headers[jobs[j].h].state)]
            /\ lastOp' = MkOp("load_internal", jobs[j].h, jobs[j].path, "commit_ok", NoError, 0)
            /\ UNCHANGED <<built_in_resources, loaders, metas>>
       ELSE JobPanic(j)

(* One step of the load job j *)
JobStep(j) ==
    \/ SourceMissing(j)
    \/ ReadFail(j)
    \/ ReadOk(j)
    \/ LoadFail(j)
    \/ LoadOk(j)

-----------------------------------------------------------------------------------------------------------------------------------------------------
(* Specifications *)

(* The manager: loaders are registered, resources are requested and the load *)
(* jobs run.                                                                 *)
Next ==
    \/ \E loader \in LoaderTypes : AddLoader(loader) /\ UNCHANGED aux
    \/ \E path \in Paths : Allocated < MaxLoads /\ Load(path) /\ UNCHANGED aux
    \/ \E path \in Paths : Allocated < MaxLoads /\ LoadAsync(path) /\ UNCHANGED aux
    \/ \E j \in JobIds : SourceMissing(j) /\ UNCHANGED aux
    \/ \E j \in JobIds : ReadFail(j) /\ UNCHANGED aux
    \/ \E j \in JobIds : ReadOk(j) /\ UNCHANGED aux
    \/ \E j \in JobIds : LoadFail(j) /\ UNCHANGED aux
    \/ \E j \in JobIds : LoadOk(j) /\ UNCHANGED aux

Spec == Init /\ [][Next]_vars

(* The task pool runs every spawned job: futures::executor::ThreadPool::spawn_ok *)
Fairness == \A j \in 1..MaxLoads : WF_vars(j \in JobIds /\ ~jobs[j].inline /\ JobStep(j) /\ UNCHANGED aux)

FairSpec == Spec /\ Fairness

(* The handle API next to the manager: callers also commit through the handles *)
(* they hold, while the load jobs run.                                         *)
ApiPaths == { BuiltInPath }

ApiLoaders == { MkLoader("ImageLoader", << <<"p", "n", "g">> >>, "T1", "S1") }

ApiNext ==
    \/ \E loader \in ApiLoaders : AddLoader(loader) /\ UNCHANGED aux
    \/ \E path \in ApiPaths : Allocated < MaxHeaders /\ Load(path) /\ UNCHANGED aux
    \/ \E h \in Handles, w \in Wakers : Poll(h, w) /\ UNCHANGED aux
    \/ \E h \in Handles, data \in UserData : CommitOk(h, data) /\ UNCHANGED aux
    \/ \E h \in Handles, error \in UserErrors : CommitError(h, error) /\ UNCHANGED aux
    \/ \E h \in Handles : CommitPending(h) /\ UNCHANGED aux
    \/ \E j \in JobIds : ReadFail(j) /\ UNCHANGED aux
    \/ \E j \in JobIds : ReadOk(j) /\ UNCHANGED aux
    \/ \E j \in JobIds : LoadFail(j) /\ UNCHANGED aux
    \/ \E j \in JobIds : LoadOk(j) /\ UNCHANGED aux

ApiSpec == Init /\ [][ApiNext]_vars

(* The typed accessors next to the manager: callers read the payload through *)
(* Resource<T> handles of any T while the load jobs run.                     *)
AccessNext ==
    \/ \E loader \in ApiLoaders : AddLoader(loader) /\ UNCHANGED aux
    \/ \E path \in ApiPaths : Allocated < MaxLoads /\ Load(path) /\ UNCHANGED aux
    \/ \E j \in JobIds : ReadFail(j) /\ UNCHANGED aux
    \/ \E j \in JobIds : ReadOk(j) /\ UNCHANGED aux
    \/ \E j \in JobIds : LoadFail(j) /\ UNCHANGED aux
    \/ \E j \in JobIds : LoadOk(j) /\ UNCHANGED aux
    \/ \E h \in Handles, t \in Uuids : AsLoadedRef(h, t) /\ UNCHANGED aux
    \/ \E h \in Handles, t \in Uuids : AsLoadedMut(h, t) /\ UNCHANGED aux
    \/ \E h \in Handles, t \in Uuids : Deref(h, t) /\ UNCHANGED aux
    \/ \E h \in Handles, t \in Uuids : DerefMut(h, t) /\ UNCHANGED aux

AccessSpec == Init /\ [][AccessNext]_vars

(* The loader registry: loaders are registered, also twice, and looked up by *)
(* paths whose extensions differ in case from the declared ones.             *)
LoaderPaths ==
    Paths \cup
    { MkPath(DefaultSource, "d", SomeExt(<<"p", "n", "g">>)),
      MkPath(DefaultSource, "e", SomeExt(<<"X">>)),
      MkPath(DefaultSource, "f", SomeExt(<<"p", "n">>)) }

LoaderNext ==
    \/ \E loader \in LoaderTypes : Len(loaders) < MaxRegistrations /\ add_loader(loader) /\ UNCHANGED aux
    \/ \E path \in LoaderPaths : FindLoader(path) /\ UNCHANGED aux

LoaderSpec == Init /\ [][LoaderNext]_vars

(* Loads next to registrations: loaders of one data type and different       *)
(* Settings types are registered, in any order, while resources are loaded.  *)
SettingsPaths ==
    { MkPath(DefaultSource, "d", SomeExt(<<"p", "n", "g">>)),
      MkPath(DefaultSource, "e", SomeExt(<<"X">>)) }

SettingsNext ==
    \/ \E loader \in LoaderTypes : Len(loaders) < MaxRegistrations /\ add_loader(loader) /\ UNCHANGED aux
    \/ \E path \in SettingsPaths : Allocated < MaxHeaders /\ Load(path) /\ UNCHANGED aux
    \/ \E j \in JobIds : ReadFail(j) /\ UNCHANGED aux
    \/ \E j \in JobIds : ReadOk(j) /\ UNCHANGED aux
    \/ \E j \in JobIds : LoadFail(j) /\ UNCHANGED aux
    \/ \E j \in JobIds : LoadOk(j) /\ UNCHANGED aux

SettingsSpec == Init /\ [][SettingsNext]_vars

-----------------------------------------------------------------------------
(* TaskPool: spawn_with_result and next_task_result *)

(* A task of spawn_with_result: the future runs, then its result is sent *)
MkTask(payload) == [state |-> "running", payload |-> payload]

(* Uuid::new_v4: an id no earlier task has *)
new_v4 == Len(pool.tasks) + 1

(* Sender::send on the unbounded channel: the result is queued last *)
send(results, result) == Append(results, result)

(* Receiver::try_recv(...).ok(): the oldest queued result, removed, or None *)
try_recv_peek(results) ==
    IF results = <<>>
    THEN [some |-> FALSE, result |-> MkTaskResult(0, ""), rest |-> results]
    ELSE [some |-> TRUE, result |-> Head(results), rest |-> results]

try_recv(results) ==
    IF results = <<>>
    THEN [some |-> FALSE, result |-> MkTaskResult(0, ""), rest |-> results]
    ELSE [some |-> TRUE, result |-> Head(results), rest |-> Tail(results)]

(* TaskPool::spawn_with_result(future): returns the id; the future of the     *)
(* task will return `payload`.                                                *)
SpawnWithResult(payload) ==
    /\ Len(pool.tasks) < MaxTasks
    /\ pool' = [pool EXCEPT !.tasks = Append(@, MkTask(payload))]
    /\ lastOp' = [MkOp("spawn_with_result", 0, NoPath, "", NoError, new_v4) EXCEPT !.val = payload]
    /\ UNCHANGED <<headers, built_in_resources, loaders, metas, jobs, woken, committed, calls>>

(* The spawned block: future.await returned, the result is sent with the id *)
TaskComplete(id) ==
    /\ id \in 1..Len(pool.tasks)
    /\ pool.tasks[id].state = "running"
    /\ pool' = [pool EXCEPT !.tasks[id].state = "sent",
                            !.results = send(@, MkTaskResult(id, pool.tasks[id].payload))]
    /\ lastOp' = [MkOp("task", 0, NoPath, "sent", NoError, id) EXCEPT !.val = pool.tasks[id].payload]
    /\ UNCHANGED <<headers, built_in_resources, loaders, metas, jobs, woken, committed, calls>>

(* TaskPool::next_task_result: does not wait; `ret` is the returned id, 0 for *)
(* None, `w` the number of results that were queued.                          *)
NextTaskResult ==
    LET r == try_recv(pool.results) IN
    /\ pool' = [pool EXCEPT !.results = r.rest,
                            !.received = IF r.some THEN Append(@, r.result) ELSE @]
    /\ lastOp' = [MkOp("next_task_result", 0, NoPath, IF r.some THEN "Some" ELSE "None",
                       NoError, r.result.id)
                    EXCEPT !.val = r.result.payload, !.w = Len(pool.results)]
    /\ UNCHANGED <<headers, built_in_resources, loaders, metas, jobs, woken, committed, calls>>

(* The task pool alone: tasks are spawned, complete in any order, and their   *)
(* results are taken, also when none is queued.                               *)
PoolNext ==
    \/ \E payload \in TaskValues : SpawnWithResult(payload)
    \/ \E id \in 1..MaxTasks : TaskComplete(id)
    \/ NextTaskResult

PoolSpec == Init /\ [][PoolNext]_vars

-----------------------------------------------------------------------------
(* Sub-resource loads: LoadContext::load_sub_resource on the task pool *)

(* Bound: the sub-resource loads of one run, nested or one after another *)
MaxDepth == 2

(* A worker runs a task that never ends *)
Busy == -1

(* The load job that awaits the job j inline, 0 when it has none *)
Parent(j) == IF j \in DOMAIN pool.parent THEN pool.parent[j] ELSE 0

(* The task of the pool in which the job j runs: a job awaited inline runs in *)
(* the task of the job that awaits it.                                        *)
RECURSIVE Root(_)
Root(j) == IF jobs[j].inline /\ Parent(j) # 0 THEN Root(Parent(j)) ELSE j

(* The job j awaits a load_sub_resource that has not returned *)
Awaiting(j) ==
    \E k \in JobIds : Parent(k) = j /\ jobs[k].pc \notin {"done", "panicked"}

(* A worker executes the task of the job j, and j is not inside an await of   *)
(* a sub-resource.                                                            *)
Runs(j) ==
    /\ \E w \in Workers : pool.workers[w] = Root(j)
    /\ ~Awaiting(j)

(* The pool after a step of the job j: the worker of a task is free once the  *)
(* task's future returned or panicked.                                        *)
Release(j) ==
    pool' = [pool EXCEPT !.workers =
               [w \in Workers |->
                  IF pool.workers[w] = j /\ jobs'[j].pc \in {"done", "panicked"}
                  THEN Free ELSE pool.workers[w]]]

(* ThreadPool: a free worker takes a spawned load task *)
Schedule(w, j) ==
    /\ pool.workers[w] = Free
    /\ ~jobs[j].inline
    /\ jobs[j].pc = "start"
    /\ \A v \in Workers : pool.workers[v] # j
    /\ pool' = [pool EXCEPT !.workers[w] = j]
    /\ lastOp' = MkOp("schedule", jobs[j].h, jobs[j].path, "", NoError, w)
    /\ UNCHANGED <<headers, built_in_resources, loaders, metas, jobs, woken, committed, calls>>

(* ThreadPool: a free worker takes a task of spawn_task that never ends *)
Occupy(w) ==
    /\ pool.workers[w] = Free
    /\ pool' = [pool EXCEPT !.workers[w] = Busy]
    /\ lastOp' = MkOp("spawn_task", 0, NoPath, "", NoError, w)
    /\ UNCHANGED <<headers, built_in_resources, loaders, metas, jobs, woken, committed, calls>>

(* One step of the load job j on the worker that executes it *)
Run(j) ==
    /\ Runs(j)
    /\ JobStep(j)
    /\ Release(j)
    /\ UNCHANGED calls

(* LoadContext::load_sub_resource(path), called by the loader of the job j:   *)
(* load_async, awaited by j.                                                  *)
LoadSubResource(j, path) ==
    /\ jobs[j].pc = "loading"
    /\ Runs(j)
    /\ LoadAsync(path)
    /\ pool' = [pool EXCEPT !.parent =
                  IF Len(jobs') > Len(jobs)
                  THEN [k \in DOMAIN @ \cup {Len(jobs')} |->
                          IF k = Len(jobs') THEN j ELSE @[k]]
                  ELSE @]
    /\ UNCHANGED calls

SubPaths == { MkPath(DefaultSource, "d", SomeExt(<<"p", "n", "g">>)) }

SubNext ==
    \/ \E loader \in ApiLoaders : AddLoader(loader) /\ UNCHANGED aux
    \/ \E path \in SubPaths : Allocated < MaxHeaders /\ Load(path) /\ UNCHANGED aux
    \/ \E w \in Workers, j \in JobIds : Schedule(w, j)
    \/ \E w \in Workers : Occupy(w)
    \/ \E j \in JobIds : Run(j)
    \/ \E j \in JobIds, path \in SubPaths :
         Len(jobs) < MaxDepth + 1 /\ LoadSubResource(j, path)

(* A worker keeps executing the task it took *)
SubFairness == \A j \in 1..(MaxDepth + 1) : WF_vars(j \in JobIds /\ Run(j))

SubSpec == Init /\ [][SubNext]_vars /\ SubFairness

-----------------------------------------------------------------------------
(* The locks of the manager and of the headers: parking_lot::Mutex *)

(* ResourceManagerState::built_in_resources, loaders, metas *)
ManagerLocks == {"built_in_resources", "loaders", "metas"}

(* UntypedResource(Arc<Mutex<ResourceHeader>>): one lock per header; a party  *)
(* that holds "header" holds the lock of the header of its call.              *)
HeaderLock == "header"

(* The locks of a load_internal future that is at an await, and what it does  *)
(* next once it is past the await: "" while it awaits.                        *)
NoJobCall == [held |-> {}, next |-> ""]

(* Mutex::lock that never gives the lock back *)
unlock_never(held, l) == held

(* The MutexGuard is dropped *)
unlock(held, l) == held \ {l}

(* Mutex::lock returned *)
lock(held, l) == held \cup {l}

(* No thread and no load job holds the lock l (of the header h) *)
Unlocked(l, h) ==
    /\ \A t \in Threads :
         ~(l \in calls.threads[t].held /\ (l # HeaderLock \/ calls.threads[t].h = h))
    /\ \A j \in DOMAIN calls.jobs :
         ~(l \in calls.jobs[j].held /\ (l # HeaderLock \/ jobs[j].h = h))

(* The call of thread t moves on *)
Continue(t, pc, held) ==
    calls' = [calls EXCEPT !.threads[t] = [@ EXCEPT !.pc = pc, !.held = held]]

(* The call of thread t returns; a load_internal future it spawned starts *)
Return(t) ==
    calls' = [calls EXCEPT !.threads[t] = [Idle EXCEPT !.held = unlock(calls.threads[t].held,
                                                                      CHOOSE l \in calls.threads[t].held : TRUE)],
                           !.jobs = IF Len(jobs') > Len(jobs) THEN Append(@, NoJobCall) ELSE @]

(* add_loader: self.loaders.lock() *)
AddLoaderLock(t, loader) ==
    /\ calls.threads[t] = Idle
    /\ Unlocked("loaders", 0)
    /\ calls' = [calls EXCEPT !.threads[t] =
                   [Idle EXCEPT !.op = "add_loader", !.pc = "push", !.arg = <<loader>>,
                                !.held = lock({}, "loaders")]]
    /\ UNCHANGED <<headers, built_in_resources, loaders, metas, jobs, woken, lastOp, committed, pool>>

(* add_loader: .push(loader); the guard is dropped at the end of the statement *)
AddLoaderPush(t) ==
    /\ calls.threads[t].op = "add_loader"
    /\ calls.threads[t].pc = "push"
    /\ loaders' = push(loaders, calls.threads[t].arg[1])
    /\ Continue(t, "lock_metas", unlock(calls.threads[t].held, "loaders"))
    /\ UNCHANGED <<headers, built_in_resources, metas, jobs, woken, lastOp, committed, pool>>

(* add_loader: self.metas.lock() *)
AddLoaderLockMetas(t) ==
    /\ calls.threads[t].op = "add_loader"
    /\ calls.threads[t].pc = "lock_metas"
    /\ Unlocked("metas", 0)
    /\ Continue(t, "insert", lock(calls.threads[t].held, "metas"))
    /\ UNCHANGED <<headers, built_in_resources, loaders, metas, jobs, woken, lastOp, committed, pool>>

(* add_loader: .insert::<L>(); the guard is dropped and add_loader returns *)
AddLoaderInsert(t) ==
    /\ calls.threads[t].op = "add_loader"
    /\ calls.threads[t].pc = "insert"
    /\ metas' = metas_insert(metas, calls.threads[t].arg[1])
    /\ lastOp' = MkOp("add_loader", 0, NoPath, "ok", NoError, 0)
    /\ UNCHANGED <<headers, built_in_resources, loaders, jobs, woken, committed, pool>>
    /\ Return(t)

(* load_built_in: self.state.built_in_resources.lock() *)
LoadLockBuiltIn(t, path) ==
    /\ calls.threads[t] = Idle
    /\ Unlocked("built_in_resources", 0)
    /\ calls' = [calls EXCEPT !.threads[t] =
                   [Idle EXCEPT !.op = "load", !.pc = "built_in", !.arg = <<path>>,
                                !.held = lock({}, "built_in_resources")]]
    /\ UNCHANGED <<headers, built_in_resources, loaders, metas, jobs, woken, lastOp, committed, pool>>

(* load_built_in: the lookup in the built-in table; the block ends and drops  *)
(* the guard, and load returns the built-in handle if there is one.           *)
LoadBuiltIn(t) ==
    /\ calls.threads[t].op = "load"
    /\ calls.threads[t].pc = "built_in"
    /\ IF calls.threads[t].arg[1] \in DOMAIN built_in_resources
       THEN /\ Load(calls.threads[t].arg[1])
            /\ Return(t)
            /\ UNCHANGED pool
       ELSE /\ Continue(t, "lock_loaders", unlock(calls.threads[t].held, "built_in_resources"))
            /\ UNCHANGED <<headers, built_in_resources, loaders, metas, jobs, woken, lastOp,
                           committed, pool>>

(* load_built_in: self.state.loaders.lock() *)
LoadLockLoaders(t) ==
    /\ calls.threads[t].op = "load"
    /\ calls.threads[t].pc = "lock_loaders"
    /\ Unlocked("loaders", 0)
    /\ Continue(t, "find_loader", lock(calls.threads[t].held, "loaders"))
    /\ UNCHANGED <<headers, built_in_resources, loaders, metas, jobs, woken, lastOp, committed, pool>>

(* load_built_in: find_loader; the guard is dropped on return, and load       *)
(* spawns the loading task or returns the LoadError handle.                   *)
LoadFindLoader(t) ==
    /\ calls.threads[t].op = "load"
    /\ calls.threads[t].pc = "find_loader"
    /\ Load(calls.threads[t].arg[1])
    /\ Return(t)
    /\ UNCHANGED pool

(* A poll on the handle h, or an accessor, which takes the same lock:        *)
(* self.0.lock()                                                             *)
AccessLock(t, op, h) ==
    /\ calls.threads[t] = Idle
    /\ Unlocked(HeaderLock, h)
    /\ calls' = [calls EXCEPT !.threads[t] =
                   [Idle EXCEPT !.op = op, !.pc = "locked", !.h = h,
                                !.held = lock({}, HeaderLock)]]
    /\ UNCHANGED <<headers, built_in_resources, loaders, metas, jobs, woken, lastOp, committed, pool>>

(* Future::poll under the header lock; the guard is dropped on return *)
PollLocked(t, w) ==
    /\ calls.threads[t].op = "poll"
    /\ calls.threads[t].pc = "locked"
    /\ Poll(calls.threads[t].h, w)
    /\ Return(t)
    /\ UNCHANGED pool

(* The load job j moves on *)
JobContinue(j, held, next) ==
    calls' = [calls EXCEPT !.jobs[j] = [held |-> held, next |-> next]]

(* What load_internal does about the outcome of an await: each outcome but a  *)
(* successful read ends in a commit on the header.                            *)
Outcomes(j) ==
    IF jobs[j].pc = "start"
    THEN IF source_exists(jobs[j].path.source) THEN {"ReadFail"} ELSE {"SourceMissing"}
    ELSE IF jobs[j].pc = "loading" THEN {"LoadFail", "LoadOk"}
    ELSE {}

(* get_meta_and_reader that locks the header of the load next to the metas *)
JobLockMetasWithHeader(j) ==
    /\ jobs[j].pc = "start"
    /\ source_exists(jobs[j].path.source)
    /\ calls.jobs[j] = NoJobCall
    /\ Unlocked("metas", 0)
    /\ Unlocked(HeaderLock, jobs[j].h)
    /\ JobContinue(j, lock(lock(calls.jobs[j].held, "metas"), HeaderLock), "ReadOk")
    /\ UNCHANGED <<headers, built_in_resources, loaders, metas, jobs, woken, lastOp, committed, pool>>

(* get_meta_and_reader: the read returned a reader; self.metas.lock() *)
JobLockMetas(j) ==
    /\ jobs[j].pc = "start"
    /\ source_exists(jobs[j].path.source)
    /\ calls.jobs[j] = NoJobCall
    /\ Unlocked("metas", 0)
    /\ JobContinue(j, lock(calls.jobs[j].held, "metas"), "ReadOk")
    /\ UNCHANGED <<headers, built_in_resources, loaders, metas, jobs, woken, lastOp, committed, pool>>

(* get_meta_and_reader: the meta is resolved and the guard dropped on return; *)
(* load_internal goes on to await the loader.                                 *)
JobGetMeta(j) ==
    /\ calls.jobs[j].next = "ReadOk"
    /\ ReadOk(j)
    /\ JobContinue(j, unlock(calls.jobs[j].held, "metas"), "")
    /\ UNCHANGED pool

(* load_internal, past an await: resource.0.lock(), in commit_error or in the *)
(* Ok arm.                                                                    *)
JobLockHeader(j, outcome) ==
    /\ outcome \in Outcomes(j)
    /\ calls.jobs[j] = NoJobCall
    /\ Unlocked(HeaderLock, jobs[j].h)
    /\ JobContinue(j, lock(calls.jobs[j].held, HeaderLock), outcome)
    /\ UNCHANGED <<headers, built_in_resources, loaders, metas, jobs, woken, lastOp, committed, pool>>

(* load_internal: the commit under the header lock; the guard is dropped and  *)
(* load_internal returns.                                                     *)
JobCommit(j) ==
    /\ \/ calls.jobs[j].next = "SourceMissing" /\ SourceMissing(j)
       \/ calls.jobs[j].next = "ReadFail" /\ ReadFail(j)
       \/ calls.jobs[j].next = "LoadFail" /\ LoadFail(j)
       \/ calls.jobs[j].next = "LoadOk" /\ LoadOk(j)
    /\ JobContinue(j, unlock(calls.jobs[j].held, HeaderLock), "")
    /\ UNCHANGED pool

(* One step of thread t inside a call *)
ThreadStep(t) ==
    \/ AddLoaderPush(t)
    \/ AddLoaderLockMetas(t)
    \/ AddLoaderInsert(t)
    \/ LoadBuiltIn(t)
    \/ LoadLockLoaders(t)
    \/ LoadFindLoader(t)
    \/ \E w \in Wakers : PollLocked(t, w)

(* One step of the load job j past an await *)
JobLockedStep(j) ==
    \/ JobGetMeta(j)
    \/ JobCommit(j)

(* The threads inside add_loader that have not pushed their loader *)
Registering == { t \in Threads : calls.threads[t].op = "add_loader" /\ calls.threads[t].pc = "push" }

(* The threads inside load *)
Loading == { t \in Threads : calls.threads[t].op = "load" }

LockPaths == { BuiltInPath, MkPath("remote", "a", SomeExt(<<"p", "n", "g">>)) }

(* Caller threads use one manager at once, lock by lock, while the load jobs  *)
(* run on the pool.                                                           *)
LockNext ==
    \/ \E t \in Threads, loader \in ApiLoaders :
         Len(loaders) + Cardinality(Registering) < MaxLoaders /\ AddLoaderLock(t, loader)
    \/ \E t \in Threads : AddLoaderPush(t)
    \/ \E t \in Threads : AddLoaderLockMetas(t)
    \/ \E t \in Threads : AddLoaderInsert(t)
    \/ \E t \in Threads, path \in LockPaths : 
         Allocated + Cardinality(Loading) < MaxHeaders /\ LoadLockBuiltIn(t, path)
    \/ \E t \in Threads : LoadBuiltIn(t)
    \/ \E t \in Threads : LoadLockLoaders(t)
    \/ \E t \in Threads : LoadFindLoader(t)
    \/ \E t \in Threads, h \in Handles : AccessLock(t, "poll", h)
    \/ \E t \in Threads : PollLocked(t, 1)
    \/ \E j \in JobIds : JobLockMetas(j)
    \/ \E j \in JobIds : JobGetMeta(j)
    \/ \E j \in JobIds, outcome \in {"SourceMissing", "ReadFail", "LoadFail", "LoadOk"} :
         JobLockHeader(j, outcome)
    \/ \E j \in JobIds : JobCommit(j)

LockSpec == Init /\ [][LockNext]_vars

-----------------------------------------------------------------------------
(* io::path::ResourcePath: strings are sequences of characters *)

(* Bounds: the length of the strings that are parsed; the segments of a base  *)
(* path and of the path that is resolved against it.                          *)
MaxLen == 7
MaxSegments == 2

(* Option<&str> *)
None == [some |-> FALSE, s |-> <<>>]
Some(s) == [some |-> TRUE, s |-> s]

(* ResourcePath { source, path, label }: the source is ResourceSourceId::Name *)
(* or ResourceSourceId::Default (None)                                        *)
ResourcePath(source, path, label) == [source |-> source, path |-> path, label |-> label]

(* The state of the loop of parse_internal before the character at `index` *)
RECURSIVE parse_loop(_, _, _)
parse_loop(asset_path, index, st) ==
    IF index >= Len(asset_path) \/ st.err # ""
    THEN st
    ELSE LET char == asset_path[index + 1] IN
         parse_loop(asset_path, index + 1,
            IF char = ":" THEN [st EXCEPT !.matched = 1]
            ELSE IF char = "/" THEN
                IF st.matched = 1 THEN [st EXCEPT !.matched = 2]
                ELSE IF st.matched = 2 THEN
                    IF ~st.source_range.some /\ st.label_range.some
                    THEN [st EXCEPT !.err = "InvalidSourceSyntax"]
                    ELSE [st EXCEPT
                            !.source_range = IF @.some THEN @ ELSE [some |-> TRUE, end |-> index - 2],
                            !.path_start = IF st.source_range.some THEN @ ELSE index + 1,
                            !.last_found_source_index = index - 2,
                            !.matched = 0]
                ELSE st
            ELSE IF char = "#" THEN
                [st EXCEPT !.path_end = index,
                           !.label_range = [some |-> TRUE, start |-> index + 1],
                           !.matched = 0]
            ELSE [st EXCEPT !.matched = 0])

(* The characters of s in the range start..end, counted from 0 *)
Slice(s, start, end) == SubSeq(s, start + 1, end)

(* ResourcePath::parse_internal, and try_parse, which wraps its result: the   *)
(* source before the first "://", the label after the last '#', the path in   *)
(* between, or the error.                                                     *)
parse_internal(asset_path) ==
    LET st == parse_loop(asset_path, 0,
                  [matched |-> 0, source_range |-> [some |-> FALSE, end |-> 0],
                   path_start |-> 0, path_end |-> Len(asset_path),
                   label_range |-> [some |-> FALSE, start |-> 0],
                   last_found_source_index |-> 0, err |-> ""])
        err == IF st.err # "" THEN st.err
               ELSE IF st.label_range.some /\ st.label_range.start <= st.last_found_source_index
               THEN "InvalidLabelSyntax"
               ELSE IF st.source_range.some /\ st.source_range.end = 0 THEN "MissingSource"
               ELSE IF st.label_range.some /\ st.label_range.start >= Len(asset_path)
               THEN "MissingLabel"
               ELSE ""
    IN  IF err # ""
        THEN [ok |-> FALSE, err |-> err, value |-> ResourcePath(None, <<>>, None)]
        ELSE [ok |-> TRUE, err |-> "",
              value |-> ResourcePath(
                  IF st.source_range.some THEN Some(Slice(asset_path, 0, st.source_range.end))
                  ELSE None,
                  Slice(asset_path, st.path_start, st.path_end),
                  IF st.label_range.some
                  THEN Some(Slice(asset_path, st.label_range.start, Len(asset_path)))
                  ELSE None)]

(* Display that writes the source without the "://" after it *)
display_without_delimiter(rp) ==
    (IF rp.source.some THEN rp.source.s ELSE <<>>)
      \o rp.path
      \o (IF rp.label.some THEN <<"#">> \o rp.label.s ELSE <<>>)

(* impl Display for ResourcePath *)
Display(rp) ==
    (IF rp.source.some THEN rp.source.s \o <<":", "/", "/">> ELSE <<>>)
      \o rp.path
      \o (IF rp.label.some THEN <<"#">> \o rp.label.s ELSE <<>>)

(* The manager is not involved: nothing is registered, nothing is loaded *)
NoManager ==
    /\ headers = <<>>
    /\ built_in_resources = [p \in {} |-> 1]
    /\ committed = <<>>
    /\ loaders = <<>>
    /\ metas = [u \in {} |-> MkMeta("")]
    /\ jobs = <<>>
    /\ woken = [w \in Wakers |-> 0]
    /\ calls = NoCalls
    /\ pool = new_task_pool

(* The characters that matter to parse_internal, and one that does not *)
Chars == {"a", ":", "/", "#"}

(* Every string of at most MaxLen characters *)
ParseInputs == UNION { [1..n -> Chars] : n \in 0..MaxLen }

ParseInit ==
    /\ NoManager
    /\ \E s \in ParseInputs : lastOp = [op |-> "input", s |-> s]

(* ResourcePath::try_parse(s) *)
TryParse ==
    /\ lastOp.op = "input"
    /\ lastOp' = [op |-> "try_parse", s |-> lastOp.s, ret |-> parse_internal(lastOp.s)]
    /\ UNCHANGED <<headers, built_in_resources, loaders, metas, jobs, woken, committed, calls, pool>>

(* to_string() of the parsed path *)
FormatPath ==
    /\ lastOp.op = "try_parse"
    /\ lastOp.ret.ok
    /\ lastOp' = [op |-> "to_string", s |-> lastOp.s, ret |-> lastOp.ret,
                  str |-> Display(lastOp.ret.value)]
    /\ UNCHANGED <<headers, built_in_resources, loaders, metas, jobs, woken, committed, calls, pool>>

ParseNext ==
    \/ TryParse
    \/ FormatPath

(* Strings are parsed and the results are formatted *)
ParseSpec == ParseInit /\ [][ParseNext]_vars

-----------------------------------------------------------------------------
(* ResourcePath::resolve and resolve_embed, over std::path *)

(* The maximal runs of characters other than '/' in p *)
RECURSIVE pieces(_)
pieces(p) ==
    IF p = <<>> THEN <<>>
    ELSE IF Head(p) = "/" THEN pieces(Tail(p))
    ELSE LET n == CHOOSE n \in 1..Len(p) :
                      /\ \A i \in 1..n : p[i] # "/"
                      /\ n = Len(p) \/ p[n + 1] = "/"
         IN  <<SubSeq(p, 1, n)>> \o pieces(SubSeq(p, n + 1, Len(p)))

(* Path::has_root *)
has_root(p) == p # <<>> /\ p[1] = "/"

(* Path::iter: the root, then the components; repeated and trailing '/' and   *)
(* every "." but a leading one are left out.                                  *)
path_iter(p) ==
    (IF has_root(p) THEN << <<"/">> >> ELSE <<>>)
      \o (IF ~has_root(p) /\ pieces(p) # <<>> /\ pieces(p)[1] = <<".">>
          THEN << <<".">> >> ELSE <<>>)
      \o SelectSeq(pieces(p), LAMBDA elt : elt # <<".">>)

(* PathBuf::push: an absolute path replaces the buffer, a relative one is     *)
(* appended after a separator.                                                *)
path_push(buf, p) ==
    IF has_root(p) THEN p
    ELSE IF buf = <<>> \/ buf[Len(buf)] = "/" THEN buf \o p
    ELSE buf \o <<"/">> \o p

(* The path made of the components elts *)
RECURSIVE path_join(_)
path_join(elts) ==
    IF elts = <<>> THEN <<>>
    ELSE path_push(path_join(SubSeq(elts, 1, Len(elts) - 1)), elts[Len(elts)])

(* PathBuf::pop that never removes a component *)
path_pop_never(buf) == [popped |-> FALSE, path |-> buf]

(* PathBuf::pop: truncates the buffer to Path::parent, which exists unless    *)
(* the path is empty or ends in the root; the last component is dropped       *)
(* whatever it is, ".." included.                                             *)
path_pop(buf) ==
    LET elts == path_iter(buf) IN
    IF elts = <<>> \/ elts[Len(elts)] = <<"/">>
    THEN [popped |-> FALSE, path |-> buf]
    ELSE [popped |-> TRUE, path |-> path_join(SubSeq(elts, 1, Len(elts) - 1))]

(* Path::strip_prefix("/"): the path after its root, or Err *)
RECURSIVE strip_prefix(_)
strip_prefix(p) ==
    IF has_root(p)
    THEN [ok |-> TRUE, path |-> IF has_root(Tail(p)) THEN strip_prefix(Tail(p)).path ELSE Tail(p)]
    ELSE [ok |-> FALSE, path |-> p]

(* The loop of normalize_path over the components that are left *)
RECURSIVE normalize_loop(_, _)
normalize_loop(elts, result_path) ==
    IF elts = <<>> THEN result_path
    ELSE normalize_loop(Tail(elts),
            IF Head(elts) = <<".">> THEN result_path
            ELSE IF Head(elts) = <<".", ".">>
            THEN IF path_pop(result_path).popped
                 THEN path_pop(result_path).path
                 ELSE path_push(result_path, Head(elts))
            ELSE path_push(result_path, Head(elts)))

(* normalize_path *)
normalize_path(path) == normalize_loop(path_iter(path), <<>>)

(* str::ends_with('/') *)
ends_with_slash(s) == s # <<>> /\ s[Len(s)] = "/"

(* ResourcePath::resolve_internal(&self, path, replace) *)
resolve_internal(self, path, replace) ==
    IF path # <<>> /\ Head(path) = "#"
    THEN [ok |-> TRUE, err |-> "", value |-> [self EXCEPT !.label = Some(Tail(path))]]
    ELSE LET parsed == parse_internal(path)
             base_path == IF replace /\ ~ends_with_slash(self.path)
                          THEN path_pop(self.path).path
                          ELSE self.path
             is_absolute == strip_prefix(parsed.value.path).ok
             rpath == strip_prefix(parsed.value.path).path
             result_path == IF ~is_absolute /\ ~parsed.value.source.some
                            THEN base_path
                            ELSE <<>>
         IN  IF ~parsed.ok
             THEN [ok |-> FALSE, err |-> parsed.err, value |-> ResourcePath(None, <<>>, None)]
             ELSE [ok |-> TRUE, err |-> "",
                   value |-> ResourcePath(
                       IF parsed.value.source.some THEN parsed.value.source ELSE self.source,
                       normalize_path(path_push(result_path, rpath)),
                       parsed.value.label)]

(* The segments joined by '/' *)
RECURSIVE JoinSegments(_)
JoinSegments(segs) ==
    IF segs = <<>> THEN <<>>
    ELSE IF Len(segs) = 1 THEN segs[1]
    ELSE segs[1] \o <<"/">> \o JoinSegments(Tail(segs))

(* The sequences of at most MaxSegments of the names *)
Segments(names) == UNION { [1..n -> names] : n \in 0..MaxSegments }

(* The base paths: segments a and b, a directory or a file, below the default *)
(* source or the source r, with the label c or none.                          *)
BaseInputs ==
    { [segs |-> segs, dir |-> dir,
       s |-> (IF named THEN <<"r", ":", "/", "/">> ELSE <<>>)
               \o JoinSegments(segs)
               \o (IF dir THEN <<"/">> ELSE <<>>)
               \o (IF labelled THEN <<"#", "c">> ELSE <<>>)] :
        segs \in Segments({<<"a">>, <<"b">>}), dir \in BOOLEAN, named \in BOOLEAN,
        labelled \in BOOLEAN }

(* The arguments: a label, or segments c, "." and "..", relative or after a   *)
(* '/', with the label d or none.                                             *)
ArgInputs ==
    { [kind |-> "label", segs |-> <<>>, s |-> <<"#", "d">>] }
      \cup
    { [kind |-> IF absolute THEN "absolute"
                ELSE IF segs = <<>> /\ labelled THEN "label"
                ELSE "relative",
       segs |-> segs,
       s |-> (IF absolute THEN <<"/">> ELSE <<>>)
               \o JoinSegments(segs)
               \o (IF labelled THEN <<"#", "d">> ELSE <<>>)] :
        segs \in Segments({<<"c">>, <<".">>, <<".", ".">>}), absolute \in BOOLEAN,
        labelled \in BOOLEAN }

ResolveInit ==
    /\ NoManager
    /\ \E b \in BaseInputs, a \in ArgInputs :
         /\ b.segs # <<>> \/ ~b.dir
         /\ lastOp = [op |-> "input", base |-> parse_internal(b.s).value, path |-> a.s,
                      segs |-> b.segs, dir |-> b.dir, kind |-> a.kind, rsegs |-> a.segs]

(* ResourcePath::parse(base).resolve(path) *)
PathResolve ==
    /\ lastOp.op = "input"
    /\ lastOp' = [lastOp EXCEPT !.op = "resolve"]
                   @@ [ret |-> resolve_internal(lastOp.base, lastOp.path, FALSE)]
    /\ UNCHANGED <<headers, built_in_resources, loaders, metas, jobs, woken, committed, calls, pool>>

(* ResourcePath::parse(base).resolve_embed(path) *)
PathResolveEmbed ==
    /\ lastOp.op = "input"
    /\ lastOp' = [lastOp EXCEPT !.op = "resolve_embed"]
                   @@ [ret |-> resolve_internal(lastOp.base, lastOp.path, TRUE)]
    /\ UNCHANGED <<headers, built_in_resources, loaders, metas, jobs, woken, committed, calls, pool>>

ResolveNext ==
    \/ PathResolve
    \/ PathResolveEmbed

(* Paths are resolved against base paths *)
ResolveSpec == ResolveInit /\ [][ResolveNext]_vars

-----------------------------------------------------------------------------
(* Properties *)

Terminal(hd) == hd.state \in {"Ok", "LoadError"}

CommitOps == {"commit_ok", "commit_error", "commit"}

(* C1: a commit_ok, commit_error or commit on a header whose state is already *)
(* Ok or LoadError fails the assertion of commit and leaves the header as it  *)
(* was: a terminal state is never replaced.                                   *)
C1_TerminalCommitRejected ==
    [][\A h \in Handles :
         (Terminal(headers[h]) /\ lastOp'.op \in CommitOps /\ lastOp'.h = h)
         => (lastOp'.out = "panic" /\ headers'[h] = headers[h])]_vars

(* C2: every waker registered on a Pending header when a commit replaces its  *)
(* state is woken exactly once by that commit.                                *)
C2_WaitersWokenOnCommit ==
    [][\A h \in Handles : \A w \in Wakers :
         (headers[h].state = "Pending" /\ w \in Range(headers[h].wakers)
            /\ headers'[h].state # "Pending")
         => woken'[w] = woken[w] + 1]_vars

(* C3: a header that has left Pending is never Pending again, whatever is     *)
(* done next, and commit given a Pending state panics and changes nothing.    *)
C3_NeverPendingAgain ==
    [][/\ \A h \in Handles : Terminal(headers[h]) => Terminal(headers'[h])
       /\ lastOp'.op = "commit" => (lastOp'.out = "panic" /\ headers' = headers)]_vars

C3_Witness ==
    /\ lastOp.op = "commit"
    /\ lastOp.out = "panic"
    /\ is_external(headers[lastOp.h].kind)
    /\ headers[lastOp.h].state = "Ok"
    /\ \E j \in JobIds : jobs[j].h = lastOp.h /\ jobs[j].pc = "done"

(* C4: every header created Pending by the manager has one load job, which   *)
(* commits nothing before it ends and, when it has ended, has committed       *)
(* exactly once, on a header that was Pending, whichever way the load went.   *)
C4_OneCommitPerLoad ==
    /\ \A j \in JobIds :
         /\ jobs[j].pc \in {"start", "loading", "done"}
         /\ jobs[j].pc # "done" =>
              (jobs[j].commits = 0 /\ headers[jobs[j].h].state = "Pending")
         /\ jobs[j].pc = "done" =>
              (jobs[j].commits = 1 /\ jobs[j].from = "Pending"
                 /\ Terminal(headers[jobs[j].h]))
    /\ \A h \in Handles :
         ~Terminal(headers[h]) => Cardinality({ j \in JobIds : jobs[j].h = h }) = 1

C4_Witness ==
    \E j \in JobIds :
        jobs[j].pc = "done" /\ jobs[j].commits = 1 /\ headers[jobs[j].h].error = "LoaderError"

(* No registered loader declares the extension of the path *)
NoLoaderFor(path) ==
    \/ ~path.ext.some
    \/ \A i \in 1..Len(loaders) : ~supports_extension(loaders[i], path.ext.s)

(* C5: load of a path that is no built-in key and has no loader returns a new *)
(* handle that is LoadError already, of kind External(path), and spawns no    *)
(* load job.                                                                  *)
C5_NoLoaderIsSynchronousError ==
    [][\A path \in Paths :
         (lastOp'.op = "load" /\ lastOp'.p = path
            /\ path \notin DOMAIN built_in_resources /\ NoLoaderFor(path))
         => /\ lastOp'.out = "returned"
            /\ lastOp'.ret = Len(headers) + 1
            /\ Len(headers') = Len(headers) + 1
            /\ headers'[lastOp'.ret].state = "LoadError"
            /\ headers'[lastOp'.ret].kind = External(path)
            /\ jobs' = jobs]_vars

C5_Witness ==
    /\ lastOp.op = "load"
    /\ lastOp.p.ext.some
    /\ Len(loaders) > 0
    /\ lastOp.p \notin DOMAIN built_in_resources
    /\ NoLoaderFor(lastOp.p)
    /\ headers[lastOp.ret].state = "LoadError"

(* C6: load and load_async of a key of the built-in table return the header  *)
(* of the table entry, whatever loaders are registered; no header is          *)
(* allocated and no load job is created.                                      *)
C6_BuiltInShortCircuit ==
    [][\A path \in Paths :
         (lastOp'.op \in {"load", "load_async"} /\ lastOp'.p = path
            /\ path \in DOMAIN built_in_resources)
         => /\ lastOp'.out = "returned"
            /\ lastOp'.ret = built_in_resources[path]
            /\ headers' = headers
            /\ jobs' = jobs]_vars

C6_Witness ==
    /\ lastOp.op \in {"load", "load_async"}
    /\ lastOp.p \in DOMAIN built_in_resources
    /\ ~NoLoaderFor(lastOp.p)
    /\ lastOp.ret = built_in_resources[lastOp.p]

(* The first registered loader that declares the extension of the path *)
FirstLoaderFor(path) ==
    loaders[CHOOSE i \in 1..Len(loaders) :
              /\ supports_extension(loaders[i], path.ext.s)
              /\ \A k \in 1..(i - 1) : ~supports_extension(loaders[k], path.ext.s)]

(* C7: load of a path that is no built-in key and has a loader returns a new  *)
(* Pending header stamped with the loader's data type uuid, of kind           *)
(* External(path), and spawns exactly one load job for it, which has not      *)
(* started when load returns.                                                 *)
C7_LoadReturnsPendingAndSpawns ==
    [][\A path \in Paths :
         (lastOp'.op = "load" /\ lastOp'.p = path
            /\ path \notin DOMAIN built_in_resources /\ ~NoLoaderFor(path))
         => /\ lastOp'.out = "returned"
            /\ lastOp'.ret = Len(headers) + 1
            /\ headers' = Append(headers,
                 MkHeader("Pending", NoData, NoError, <<>>,
                          FirstLoaderFor(path).data, External(path)))
            /\ Len(jobs') = Len(jobs) + 1
            /\ SubSeq(jobs', 1, Len(jobs)) = jobs
            /\ jobs'[Len(jobs')].h = lastOp'.ret
            /\ jobs'[Len(jobs')].path = path
            /\ jobs'[Len(jobs')].loader = FirstLoaderFor(path)
            /\ jobs'[Len(jobs')].pc = "start"
            /\ ~jobs'[Len(jobs')].inline]_vars

C7_Witness ==
    /\ lastOp.op = "load"
    /\ lastOp.out = "returned"
    /\ headers[lastOp.ret].state = "Pending"
    /\ \E j \in JobIds : jobs[j].h = lastOp.ret /\ jobs[j].pc = "start" /\ ~jobs[j].inline

(* The header h was created Pending by load: its job is on the task pool *)
Spawned(h) == h \in Handles /\ \E j \in JobIds : jobs[j].h = h /\ ~jobs[j].inline

(* C8: under fair scheduling of the task pool every handle that load returned *)
(* Pending reaches Ok or LoadError.                                           *)
C8_SpawnedLoadTerminates ==
    \A h \in 1..(MaxLoads + 1) :
        (Spawned(h) /\ headers[h].state = "Pending") ~> (Spawned(h) /\ Terminal(headers[h]))

C8_Witness ==
    \E h \in Handles : Spawned(h) /\ Terminal(headers[h])

(* The header without its wakers *)
NoWakers(hd) == [hd EXCEPT !.wakers = <<>>]

(* C9: a header on which no commit was made is Pending, and a poll changes    *)
(* nothing of a header but the wakers list of a Pending one, to which it only *)
(* adds or in which it updates an entry.                                      *)
C9_PollKeepsPending ==
    [][/\ \A h \in Handles : ~committed[h] => headers[h].state = "Pending"
       /\ lastOp'.op = "poll" =>
            /\ Len(headers') = Len(headers)
            /\ \A h \in Handles :
                 /\ NoWakers(headers'[h]) = NoWakers(headers[h])
                 /\ Range(headers[h].wakers) \subseteq Range(headers'[h].wakers)
                 /\ h # lastOp'.h => headers'[h] = headers[h]
            /\ committed' = committed]_vars

C9_Witness ==
    /\ lastOp.op = "poll"
    /\ headers[lastOp.h].state = "Pending"
    /\ ~committed[lastOp.h]
    /\ Len(headers[lastOp.h].wakers) = 2

(* C10: a poll of a committed header returns Ready: the committed error when  *)
(* the state is LoadError, the handle itself when it is Ok; a poll of a       *)
(* header not yet committed returns Pending.                                  *)
C10_PollObservesCommit ==
    lastOp.op = "poll" =>
        /\ committed[lastOp.h] =>
             /\ lastOp.out # "Pending"
             /\ headers[lastOp.h].state = "LoadError" =>
                  (lastOp.out = "ReadyErr" /\ lastOp.err = headers[lastOp.h].error)
             /\ headers[lastOp.h].state = "Ok" =>
                  (lastOp.out = "ReadyOk" /\ lastOp.ret = lastOp.h)
        /\ ~committed[lastOp.h] => lastOp.out = "Pending"

C10_Witness ==
    /\ lastOp.op = "poll"
    /\ committed[lastOp.h]
    /\ lastOp.out = "ReadyErr"
    /\ lastOp.err = "LoaderError"

(* C11: a poll of a Pending header returns Pending and leaves the caller's    *)
(* waker registered; when an equivalent waker was registered the list keeps   *)
(* its length, otherwise the waker is appended; the list never holds two      *)
(* equivalent wakers, so it is never longer than the set of waiters that      *)
(* polled.                                                                    *)
C11_PollRegistersOnce ==
    [][(lastOp'.op = "poll" /\ headers[lastOp'.h].state = "Pending") =>
         LET old == headers[lastOp'.h].wakers
             new == headers'[lastOp'.h].wakers
         IN  /\ lastOp'.out = "Pending"
             /\ Range(new) = Range(old) \cup {lastOp'.w}
             /\ \A i, k \in 1..Len(new) : will_wake(new[i], new[k]) => i = k
             /\ Len(new) <= NumWakers
             /\ IF \E i \in 1..Len(old) : will_wake(old[i], lastOp'.w)
                THEN Len(new) = Len(old)
                ELSE new = Append(old, lastOp'.w)]_vars

(* The last poll updated an entry in place: its waker is not the last entry *)
C11_Witness ==
    /\ lastOp.op = "poll"
    /\ lastOp.out = "Pending"
    /\ Len(headers[lastOp.h].wakers) = 2
    /\ headers[lastOp.h].wakers[2] # lastOp.w
    /\ lastOp.w \in Range(headers[lastOp.h].wakers)

(* C12: as_loaded_ref and as_loaded_mut never panic; they return Some, with   *)
(* the payload of the header, exactly when the state is Ok and the payload is *)
(* a T, and None when the state is Pending or LoadError or the payload is of  *)
(* another type.                                                              *)
C12_FallibleAccessors ==
    lastOp.op \in {"as_loaded_ref", "as_loaded_mut"} =>
        /\ lastOp.out \in {"Some", "None"}
        /\ lastOp.out = "Some" <=>
              (headers[lastOp.h].state = "Ok" /\ headers[lastOp.h].data.type = lastOp.t)
        /\ lastOp.out = "Some" => lastOp.val = headers[lastOp.h].data
        /\ headers[lastOp.h].state \in {"Pending", "LoadError"} => lastOp.out = "None"

C12_Witness ==
    /\ lastOp.op = "as_loaded_mut"
    /\ lastOp.out = "None"
    /\ headers[lastOp.h].state = "Ok"
    /\ is_external(headers[lastOp.h].kind)
    /\ headers[lastOp.h].data.type # lastOp.t

(* C13: dereferencing the guard of data_ref panics when the header is         *)
(* Pending, when it is LoadError and when it is Ok with a payload that is no  *)
(* T; it yields the payload when the header is Ok with a T; the header is the *)
(* same after it, panic or not.                                               *)
C13_DerefPanics ==
    [][lastOp'.op \in {"deref", "deref_mut"} =>
         LET hd == headers[lastOp'.h] IN
         /\ hd.state = "Pending" => lastOp'.out = "panic"
         /\ hd.state = "LoadError" => lastOp'.out = "panic"
         /\ (hd.state = "Ok" /\ hd.data.type # lastOp'.t) => lastOp'.out = "panic"
         /\ (hd.state = "Ok" /\ hd.data.type = lastOp'.t) =>
               (lastOp'.out = "Some" /\ lastOp'.val = hd.data)
         /\ headers' = headers]_vars

C13_Witness ==
    /\ lastOp.op = "deref_mut"
    /\ lastOp.out = "panic"
    /\ lastOp.err = PanicFailed
    /\ headers[lastOp.h].state = "LoadError"

(* The jobs spawned on the task pool *)
PoolJobs(js) == { j \in 1..Len(js) : ~js[j].inline }

(* C14: load_async spawns nothing on the task pool; it returns at once only a  *)
(* terminal handle (the built-in one, or a LoadError for a path without       *)
(* loader), and otherwise awaits load_internal inline; when that load is done *)
(* the handle it returns is Ok or LoadError.                                  *)
C14_LoadAsyncCompletesTerminal ==
    [][/\ lastOp'.op = "load_async" =>
            /\ PoolJobs(jobs') = PoolJobs(jobs)
            /\ lastOp'.out \in {"returned", "awaiting"}
            /\ lastOp'.out = "returned" =>
                  (jobs' = jobs /\ Terminal(headers'[lastOp'.ret]))
            /\ lastOp'.out = "awaiting" =>
                  /\ Len(jobs') = Len(jobs) + 1
                  /\ jobs'[Len(jobs')].inline
                  /\ jobs'[Len(jobs')].h = lastOp'.ret
                  /\ jobs'[Len(jobs')].pc = "start"
       /\ \A j \in JobIds :
            (jobs[j].inline /\ jobs'[j].pc = "done") =>
                (jobs'[j].inline /\ Terminal(headers'[jobs[j].h]))]_vars

C14_Witness ==
    /\ PoolJobs(jobs) = {}
    /\ \E j \in JobIds :
          jobs[j].inline /\ jobs[j].pc = "done" /\ headers[jobs[j].h].state = "Ok"

RecoverableErrors == {"MissingAssetSourceError", "AssetReaderError", "LoaderError"}

(* C15: a failure met by a load job (no source, a reader error, an Err of the *)
(* loader) is committed on the job's header as LoadError with that error and  *)
(* ends the job without a panic; load and load_async return a handle and no   *)
(* error; a header becomes Ok only by the commit of a job whose loader        *)
(* returned Ok, and then holds the value of that loader.                      *)
C15_FailuresEndAsLoadError ==
    [][/\ (lastOp'.op = "load_internal" /\ lastOp'.err # NoError) =>
            /\ lastOp'.err \in RecoverableErrors
            /\ headers'[lastOp'.h].state = "LoadError"
            /\ headers'[lastOp'.h].error = lastOp'.err
            /\ headers'[lastOp'.h].data = NoData
            /\ \E j \in JobIds : jobs[j].h = lastOp'.h /\ jobs[j].pc # "done"
                                   /\ jobs'[j].pc = "done"
       /\ lastOp'.op \in {"load", "load_async"} =>
            (lastOp'.err = NoError /\ lastOp'.ret \in 1..Len(headers'))
       /\ \A h \in Handles :
            (headers[h].state # "Ok" /\ headers'[h].state = "Ok") =>
                /\ lastOp'.op = "load_internal"
                /\ lastOp'.err = NoError
                /\ \E j \in JobIds :
                      /\ jobs[j].h = h
                      /\ jobs[j].pc = "loading"
                      /\ jobs'[j].pc = "done"
                      /\ headers'[h].data = MkData(jobs[j].loader.data, jobs[j].loader.id)]_vars

C15_Witness ==
    /\ lastOp.op = "load_internal"
    /\ lastOp.err = "AssetReaderError"
    /\ headers[lastOp.h].state = "LoadError"
    /\ \E h \in Handles : headers[h].state = "Ok" /\ is_external(headers[h].kind)

(* The path has a loader, is no built-in key and names a source that is not   *)
(* registered                                                                 *)
MissingSourcePath(path) ==
    /\ path \notin DOMAIN built_in_resources
    /\ ~NoLoaderFor(path)
    /\ path.source # DefaultSource

(* C16 as claimed: load of a path with a loader whose source is not           *)
(* registered returns a handle that is LoadError already.                     *)
C16_MissingSourceIsSynchronousError ==
    [][\A path \in Paths :
         (lastOp'.op = "load" /\ lastOp'.p = path /\ MissingSourcePath(path))
         => (headers'[lastOp'.ret].state = "LoadError" /\ lastOp'.err = NoError)]_vars

(* C16, amended: load of such a path returns a Pending handle and spawns its  *)
(* load job, without an error for the caller; the job never reads nor invokes *)
(* the loader: its first step commits LoadError, with the missing-source      *)
(* error, and ends it.                                                        *)
C16_MissingSourceCommittedByJob ==
    [][/\ \A path \in Paths :
            (lastOp'.op = "load" /\ lastOp'.p = path /\ MissingSourcePath(path)) =>
                /\ lastOp'.err = NoError
                /\ lastOp'.out = "returned"
                /\ headers'[lastOp'.ret].state = "Pending"
                /\ Len(jobs') = Len(jobs) + 1
                /\ jobs'[Len(jobs')].h = lastOp'.ret
                /\ jobs'[Len(jobs')].pc = "start"
       /\ \A j \in JobIds :
            jobs[j].path.source # DefaultSource =>
                /\ jobs[j].pc \in {"start", "done"}
                /\ jobs[j].pc = "start" => headers[jobs[j].h].state = "Pending"
                /\ (jobs[j].pc = "start" /\ jobs'[j] # jobs[j]) =>
                      /\ jobs'[j].pc = "done"
                      /\ headers'[jobs[j].h].state = "LoadError"
                      /\ headers'[jobs[j].h].error = "MissingAssetSourceError"
                      /\ lastOp'.op = "load_internal"]_vars

C16_Witness ==
    \E j \in JobIds :
        /\ ~jobs[j].inline
        /\ jobs[j].path.source # DefaultSource
        /\ jobs[j].pc = "done"
        /\ headers[jobs[j].h].state = "LoadError"
        /\ headers[jobs[j].h].error = "MissingAssetSourceError"

C18_LoadsNeverShare ==
    [][/\ \A path \in Paths :
            (lastOp'.op = "load" /\ lastOp'.p = path
               /\ path \notin DOMAIN built_in_resources /\ ~NoLoaderFor(path)) =>
                /\ lastOp'.ret = Len(headers) + 1
                /\ Len(headers') = Len(headers) + 1
                /\ \A h \in Handles : headers'[h] = headers[h]
                /\ headers'[lastOp'.ret].state = "Pending"
                /\ Len(jobs') = Len(jobs) + 1
                /\ jobs'[Len(jobs')].h = lastOp'.ret
       /\ \A i, k \in 1..Len(jobs') : jobs'[i].h = jobs'[k].h => i = k
       /\ lastOp'.op = "load_internal" =>
            \A h \in Handles : h # lastOp'.h => headers'[h] = headers[h]]_vars

(* Two loads of one path, both spawned: one has committed, the other is still *)
(* Pending                                                                    *)
C18_Witness ==
    \E i, k \in JobIds :
        /\ i # k
        /\ jobs[i].path = jobs[k].path
        /\ ~jobs[i].inline /\ ~jobs[k].inline
        /\ jobs[i].h # jobs[k].h
        /\ headers[jobs[i].h].state = "Ok"
        /\ headers[jobs[k].h].state = "Pending"

(* C19 as claimed: after any sequence of add_loader calls the registry holds  *)
(* at most one loader of each concrete type.                                  *)
C19_AtMostOneLoaderPerType ==
    \A i, k \in 1..Len(loaders) : loaders[i].id = loaders[k].id => i = k

(* C19, amended: add_loader appends the loader to the registry, whether or    *)
(* not its type is registered already, and returns nothing; the loaders       *)
(* registered before stay, in their order, and every path that had a loader   *)
(* keeps it; the meta table is what is replaced: it maps the data type of the *)
(* loader to the default settings of the loader registered last.              *)
C19_AddLoaderAppends ==
    [][lastOp'.op = "add_loader" =>
         /\ lastOp'.out = "ok"
         /\ lastOp'.loader = NoLoader
         /\ Len(loaders') = Len(loaders) + 1
         /\ SubSeq(loaders', 1, Len(loaders)) = loaders
         /\ loaders'[Len(loaders')] \in LoaderTypes
         /\ DOMAIN metas' = DOMAIN metas \cup {loaders'[Len(loaders')].data}
         /\ metas'[loaders'[Len(loaders')].data].settings = loaders'[Len(loaders')].settings
         /\ \A u \in DOMAIN metas : u # loaders'[Len(loaders')].data => metas'[u] = metas[u]
         /\ \A path \in LoaderPaths :
              ~NoLoaderFor(path) => FirstLoaderFor(path)' = FirstLoaderFor(path)]_vars

(* The same loader type is registered twice *)
C19_Witness ==
    /\ lastOp.op = "add_loader"
    /\ Len(loaders) = 2
    /\ loaders[1].id = loaders[2].id

(* The string in lower case *)
Lower(str) == [i \in 1..Len(str) |-> ToLower(str[i])]

(* The loader declares an extension equal to ext but for the case of letters *)
Declares(loader, ext) ==
    \E e \in 1..Len(loader.exts) : Lower(loader.exts[e]) = Lower(ext)

(* C20: find_loader returns the first loader, in registration order, that     *)
(* declares an extension equal to the extension of the path but for the case  *)
(* of letters, and None when the path has no extension or no loader declares  *)
(* such an extension.                                                         *)
C20_FindLoaderFirstMatch ==
    lastOp.op = "find_loader" =>
        LET ext == lastOp.p.ext
            hits == { i \in 1..Len(loaders) : ext.some /\ Declares(loaders[i], ext.s) }
        IN  /\ hits = {} => (lastOp.out = "None" /\ lastOp.loader = NoLoader)
            /\ hits # {} =>
                  /\ lastOp.out = "Some"
                  /\ \E i \in hits : (\A k \in hits : i <= k) /\ lastOp.loader = loaders[i]

(* Two loaders declare the extension, in another case than the path has it: *)
(* the first registered is returned                                         *)
C20_Witness ==
    /\ lastOp.op = "find_loader"
    /\ lastOp.out = "Some"
    /\ Len(loaders) = 2
    /\ loaders[1] # loaders[2]
    /\ lastOp.loader = loaders[1]
    /\ Declares(loaders[2], lastOp.p.ext.s)
    /\ \A e \in 1..Len(loaders[1].exts) : loaders[1].exts[e] # lastOp.p.ext.s

LastLoaderOf(u) ==
    loaders[CHOOSE i \in 1..Len(loaders) :
              /\ loaders[i].data = u
              /\ \A k \in (i + 1)..Len(loaders) : loaders[k].data # u]

(* C30: the meta table holds, for a data type, the default settings of the    *)
(* loader of that type registered last; a load job whose reader is open holds *)
(* settings of the Settings type of its own loader, also when the table holds *)
(* those of another loader of the same data type; no load job panics.         *)
C30_SettingsMatchLoader ==
    /\ DOMAIN metas = { loaders[i].data : i \in 1..Len(loaders) }
    /\ \A u \in DOMAIN metas : metas[u].settings = LastLoaderOf(u).settings
    /\ \A j \in JobIds :
          /\ jobs[j].pc # "panicked"
          /\ jobs[j].pc = "loading" => jobs[j].meta.settings = jobs[j].loader.settings
          /\ (jobs[j].pc = "done" /\ headers[jobs[j].h].error # "AssetReaderError") =>
                jobs[j].meta.settings = jobs[j].loader.settings

(* A load went through a loader whose data type has the settings of another *)
(* loader in the table                                                      *)
C30_Witness ==
    \E j \in JobIds :
        /\ jobs[j].pc = "loading"
        /\ Len(loaders) = 2
        /\ jobs[j].loader = loaders[1]
        /\ loaders[2].data = loaders[1].data
        /\ loaders[2].settings # loaders[1].settings
        /\ metas[jobs[j].loader.data].settings = loaders[2].settings
        /\ jobs[j].meta.settings = loaders[1].settings

(* The number of results with the id `id` in the sequence `results` *)
Occurrences(results, id) == Cardinality({ i \in 1..Len(results) : results[i].id = id })

(* C22: every task of spawn_with_result whose future completed has exactly    *)
(* one result, tagged with the id spawn_with_result returned and carrying the *)
(* future's value, either queued or already returned by next_task_result, and *)
(* a task still running has none; next_task_result returns the oldest queued  *)
(* result and removes that one only, and returns None, without waiting, when  *)
(* none is queued.                                                            *)
C22_OneResultPerTask ==
    /\ \A id \in 1..Len(pool.tasks) :
         /\ Occurrences(pool.results \o pool.received, id)
              = (IF pool.tasks[id].state = "sent" THEN 1 ELSE 0)
         /\ \A i \in 1..Len(pool.results \o pool.received) :
              (pool.results \o pool.received)[i].id = id
                => (pool.results \o pool.received)[i].payload = pool.tasks[id].payload
    /\ \A i \in 1..Len(pool.results \o pool.received) :
         (pool.results \o pool.received)[i].id \in 1..Len(pool.tasks)
    /\ lastOp.op = "spawn_with_result" => lastOp.ret = Len(pool.tasks)
    /\ lastOp.op = "next_task_result" =>
         /\ (lastOp.out = "None") = (lastOp.w = 0)
         /\ Len(pool.results) = (IF lastOp.w = 0 THEN 0 ELSE lastOp.w - 1)
         /\ lastOp.out = "Some" =>
              /\ pool.received # <<>>
              /\ pool.received[Len(pool.received)] = MkTaskResult(lastOp.ret, lastOp.val)

(* C22 witness: both tasks completed, the second one first; its result was    *)
(* returned by next_task_result while the result of the first is still queued *)
C22_Witness ==
    /\ Len(pool.tasks) = 2
    /\ pool.tasks[1].state = "sent"
    /\ pool.tasks[2].state = "sent"
    /\ lastOp.op = "next_task_result"
    /\ lastOp.ret = 2
    /\ Len(pool.results) = 1
    /\ pool.results[1].id = 1

(* C25: a load task that a worker executes completes, whatever sub-resources  *)
(* its loader loads and to whatever depth, although no other worker ever      *)
(* takes a task of it: the sub-resource loads run inside the parent's task.   *)
C25_SubLoadsRunInline ==
    \A j \in 1..(MaxDepth + 1) :
        (j \in JobIds /\ ~jobs[j].inline /\ (\E w \in Workers : pool.workers[w] = j))
            ~> (j \in JobIds /\ jobs[j].pc = "done" /\ Terminal(headers[jobs[j].h]))

(* C25 witness: the load task holds a worker and no worker is free, a         *)
(* sub-resource load of its loader completed, and so did the sub-resource     *)
(* load that one made.                                                        *)
C25_Witness ==
    \E j, k, l \in JobIds :
        /\ ~jobs[j].inline
        /\ pool.workers[1] = j
        /\ \A w \in Workers : pool.workers[w] # Free
        /\ Parent(k) = j
        /\ Parent(l) = k
        /\ jobs[j].pc = "loading"
        /\ jobs[k].pc = "done"
        /\ jobs[l].pc = "done"
        /\ headers[jobs[l].h].state = "Ok"

(* C21: whenever no add_loader call is in progress, every loader of the       *)
(* registry has an entry in metas under its data type uuid; and every load    *)
(* that got past get_meta_and_reader holds settings of its loader, from the   *)
(* entry or from the loader's default meta, also when it ran between the two  *)
(* steps of an add_loader: no load panics for lack of settings.               *)
C21_EveryLoaderHasSettings ==
    /\ (\A t \in Threads : calls.threads[t].op # "add_loader")
         => \A i \in 1..Len(loaders) : data_type_uuid(loaders[i]) \in DOMAIN metas
    /\ \A j \in JobIds :
         /\ jobs[j].pc # "panicked"
         /\ jobs[j].pc = "loading" => settings_is(jobs[j].meta, jobs[j].loader)
         /\ (jobs[j].pc = "done" /\ lastOp.op = "load_internal" /\ lastOp.h = jobs[j].h
               /\ lastOp.out = "commit_ok")
              => settings_is(jobs[j].meta, jobs[j].loader)

(* C21 witness: a load runs its loader with the loader's default settings,    *)
(* while the add_loader that registered the loader has not inserted its meta  *)
C21_Witness ==
    \E j \in JobIds, t \in Threads :
        /\ jobs[j].pc = "loading"
        /\ calls.threads[t].op = "add_loader"
        /\ calls.threads[t].arg[1] = jobs[j].loader
        /\ data_type_uuid(jobs[j].loader) \notin DOMAIN metas
        /\ settings_is(jobs[j].meta, jobs[j].loader)

CommitOutcomes == {"SourceMissing", "ReadFail", "LoadFail", "LoadOk"}

(* C23: a load job holds the lock of its header only for the commit that ends *)
(* the load, and holds no lock of the manager then; while the load is at one  *)
(* of its awaits the job holds no lock, so the header lock is free or held by *)
(* a caller thread whose next step gives it back, and a poll during the load  *)
(* returns Pending.                                                           *)
C23_HeaderLockOnlyToCommit ==
    /\ \A j \in DOMAIN calls.jobs :
         /\ HeaderLock \in calls.jobs[j].held
              => calls.jobs[j].held = {HeaderLock} /\ calls.jobs[j].next \in CommitOutcomes
         /\ calls.jobs[j].next \notin CommitOutcomes => HeaderLock \notin calls.jobs[j].held
         /\ (jobs[j].pc \in {"start", "loading"} /\ calls.jobs[j].next \notin CommitOutcomes)
              => \/ Unlocked(HeaderLock, jobs[j].h)
                 \/ \E t \in Threads :
                      /\ calls.threads[t].h = jobs[j].h
                      /\ calls.threads[t].held = {HeaderLock}
                      /\ ENABLED ThreadStep(t)
    /\ (lastOp.op = "poll" /\ \E j \in JobIds : jobs[j].h = lastOp.h /\ jobs[j].pc # "done")
         => lastOp.out = "Pending"

(* C23 witness: a poll on the handle returned Pending while the loader of the *)
(* load was running                                                           *)
C23_Witness ==
    /\ lastOp.op = "poll"
    /\ lastOp.out = "Pending"
    /\ \E j \in JobIds :
         /\ jobs[j].h = lastOp.h
         /\ jobs[j].pc = "loading"
         /\ calls.jobs[j] = NoJobCall

(* C24: no thread and no load job holds two locks at once; a load job at an   *)
(* await holds none; and whoever holds a lock can take its next step, which   *)
(* gives the lock back, so no party waits for a lock forever.                 *)
C24_OneLockAtATime ==
    /\ \A t \in Threads :
         /\ Cardinality(calls.threads[t].held) <= 1
         /\ calls.threads[t].held # {} => ENABLED ThreadStep(t)
    /\ \A j \in DOMAIN calls.jobs :
         /\ Cardinality(calls.jobs[j].held) <= 1
         /\ calls.jobs[j].next = "" => calls.jobs[j].held = {}
         /\ calls.jobs[j].held # {} => ENABLED JobLockedStep(j)
    /\ \A l \in ManagerLocks :
         Cardinality({ t \in Threads : l \in calls.threads[t].held })
           + Cardinality({ j \in DOMAIN calls.jobs : l \in calls.jobs[j].held }) <= 1

(* C24 witness: a thread inside add_loader holds the loaders lock while       *)
(* another thread inside load waits for it                                    *)
C24_Witness ==
    \E t, u \in Threads :
        /\ calls.threads[t].op = "add_loader"
        /\ calls.threads[t].held = {"loaders"}
        /\ calls.threads[u].op = "load"
        /\ calls.threads[u].pc = "lock_loaders"

(* The string t occurs in the string s *)
Occurs(t, s) == \E i \in 1..Len(s) : i + Len(t) - 1 <= Len(s) /\ SubSeq(s, i, i + Len(t) - 1) = t

NoHash(s) == ~Occurs(<<"#">>, s)

NoDelimiter(s) == ~Occurs(<<":", "/", "/">>, s)

(* s is path, path#label, source://path or source://path#label with a         *)
(* non-empty source and label, no '#' in the source or the path and no "://"  *)
(* in the path or the label.                                                  *)
InForm(s) ==
    \E i \in 0..Len(s), k \in 1..(Len(s) + 1) :
        LET source == SubSeq(s, 1, i - 1)
            path == SubSeq(s, IF i = 0 THEN 1 ELSE i + 3, k - 1)
            label == SubSeq(s, k + 1, Len(s))
        IN  /\ i > 0 => /\ i + 2 < k
                        /\ SubSeq(s, i, i + 2) = <<":", "/", "/">>
                        /\ source # <<>>
                        /\ NoHash(source)
            /\ k <= Len(s) => /\ s[k] = "#"
                              /\ label # <<>>
                              /\ NoDelimiter(label)
            /\ NoHash(path)
            /\ NoDelimiter(path)

(* InForm, with neither '#' nor "://" inside the source, the path or the label *)
InStrictForm(s) ==
    \E i \in 0..Len(s), k \in 1..(Len(s) + 1) :
        LET source == SubSeq(s, 1, i - 1)
            path == SubSeq(s, IF i = 0 THEN 1 ELSE i + 3, k - 1)
            label == SubSeq(s, k + 1, Len(s))
        IN  /\ i > 0 => /\ i + 2 < k
                        /\ SubSeq(s, i, i + 2) = <<":", "/", "/">>
                        /\ source # <<>>
                        /\ NoHash(source)
                        /\ NoDelimiter(source)
            /\ k <= Len(s) => /\ s[k] = "#"
                              /\ label # <<>>
                              /\ NoDelimiter(label)
                              /\ NoHash(label)
            /\ NoHash(path)
            /\ NoDelimiter(path)

(* C27 as stated: every string of the form path, path#label, source://path or *)
(* source://path#label (non-empty source and label, no '#' in the source or   *)
(* the path, no "://" in the path or the label) is parsed without error, and  *)
(* formatting the result gives the string back.                               *)
C27_RoundTrip ==
    /\ (lastOp.op = "try_parse" /\ InForm(lastOp.s)) => lastOp.ret.ok
    /\ (lastOp.op = "to_string" /\ InForm(lastOp.s)) => lastOp.str = lastOp.s

(* C27, amended: every string of one of the four forms in which neither the   *)
(* source nor the path nor the label contains '#' or "://" is parsed without  *)
(* error into that source, path and label, and formatting the result gives    *)
(* the string back.                                                           *)
C27_RoundTripWithoutHashInLabel ==
    /\ (lastOp.op = "try_parse" /\ InStrictForm(lastOp.s)) => lastOp.ret.ok
    /\ (lastOp.op = "to_string" /\ InStrictForm(lastOp.s)) =>
         /\ lastOp.str = lastOp.s
         /\ NoHash(lastOp.ret.value.path)
         /\ lastOp.ret.value.label.some => NoHash(lastOp.ret.value.label.s)

(* C27 witness: a://a#a was parsed into its three parts and formatted back *)
C27_Witness ==
    /\ lastOp.op = "to_string"
    /\ lastOp.s = <<"a", ":", "/", "/", "a", "#", "a">>
    /\ lastOp.ret.value = ResourcePath(Some(<<"a">>), <<"a">>, Some(<<"a">>))
    /\ lastOp.str = lastOp.s

(* What is left of the segments when "." and every name followed by ".." are  *)
(* removed; a ".." that follows no name is kept.                              *)
RECURSIVE Collapse(_, _)
Collapse(kept, segs) ==
    IF segs = <<>> THEN kept
    ELSE Collapse(IF Head(segs) = <<".">> THEN kept
                  ELSE IF Head(segs) = <<".", ".">>
                          /\ kept # <<>> /\ kept[Len(kept)] # <<".", ".">>
                  THEN SubSeq(kept, 1, Len(kept) - 1)
                  ELSE Append(kept, Head(segs)),
                  Tail(segs))

(* The ".." left over when the segments are collapsed *)
LeftOver(segs) == Cardinality({ i \in 1..Len(Collapse(<<>>, segs)) :
                                  Collapse(<<>>, segs)[i] = <<".", ".">> })

(* The segments the argument of the call in lastOp is appended to *)
BaseSegments ==
    IF lastOp.kind = "absolute" THEN <<>>
    ELSE IF lastOp.op = "resolve_embed" /\ ~lastOp.dir /\ lastOp.segs # <<>>
    THEN SubSeq(lastOp.segs, 1, Len(lastOp.segs) - 1)
    ELSE lastOp.segs

(* The base of the call in lastOp without the file portion of its path: the   *)
(* characters after the last '/'.                                             *)
WithoutFile(base) ==
    [base EXCEPT !.path =
        LET slashes == { i \in 1..Len(@) : @[i] = "/" }
        IN  IF slashes = {} THEN <<>>
            ELSE SubSeq(@, 1, CHOOSE i \in slashes : \A k \in slashes : k <= i)]

(* The first three sentences of C28, for resolve and for resolve_embed: an    *)
(* argument starting with '#' replaces the label only; any other argument     *)
(* keeps the base source, and where the base has a segment for every ".." its *)
(* segments are appended to the base segments, or to none after a '/', with   *)
(* "." and "name/.." removed.                                                 *)
ResolveCases ==
    lastOp.op \in {"resolve", "resolve_embed"} =>
        /\ lastOp.ret.ok
        /\ lastOp.kind = "label" =>
             lastOp.ret.value = [lastOp.base EXCEPT !.label = Some(<<"d">>)]
        /\ lastOp.kind # "label" =>
             /\ lastOp.ret.value.source = lastOp.base.source
             /\ LeftOver(BaseSegments \o lastOp.rsegs) = 0 =>
                  lastOp.ret.value.path
                    = JoinSegments(Collapse(<<>>, BaseSegments \o lastOp.rsegs))

C29_LeftOverDotDotKept ==
    (lastOp.op \in {"resolve", "resolve_embed"} /\ lastOp.kind # "label") =>
        lastOp.ret.value.path = JoinSegments(Collapse(<<>>, BaseSegments \o lastOp.rsegs))

====
